---- MODULE Spec2Model ----
(***************************************************************************)
(* A model of the broker connection of kafka-nodeTS (BrokerConnection):    *)
(* the connection state machine, request/response correlation, the        *)
(* timeout sweep and the reassembly of response frames from the socket's  *)
(* byte stream.  Every handler of the class is one action; the handlers   *)
(* are written as operators on a record of the object's fields so that a  *)
(* handler that calls another one (onError -> disconnect) is their         *)
(* composition.                                                            *)
(***************************************************************************)
EXTENDS Integers, Sequences, FiniteSets, TLC

\* ---------------------------------------------------------------- bounds
MaxSockets == 2          \* sockets one connection dials in a behaviour
MaxRequests == 2         \* send() calls in a behaviour
MaxNow == 3              \* last reading of the clock
MaxJoins == 1            \* connect() calls that join a pending attempt
RequestTimeoutCfg == 2   \* config.requestTimeout, in clock ticks
MaxFrames == 2           \* frames of a stream fed to the reassembly
MaxRedialRequests == 0   \* send() calls in a behaviour that dials twice
MaxBuffer == 12          \* bytes the pending buffer may grow to
SplitAt == 6             \* where a frame that arrives in two chunks is cut
MaxIdSends == 3          \* send() calls when the allocation of ids is checked
IdWindow == 3            \* how far from 0 and from the modulus the counter starts
MaxNodes == 2            \* brokers of the cluster
MaxCalls == 2            \* calls of the client's methods in a behaviour
MaxStringLen == 2        \* code units of a string, elements of an array
MaxCut == 3              \* bytes a buffer is cut short by
MaxUpdates == 3          \* calls of updateMetadata on one cache
MaxVersion == 1          \* highest API version a broker reports
MaxVersionCalls == 2     \* calls that fill a version table
MaxSeeds == 2            \* seed brokers of a NetworkClient
MaxUserRefreshes == 1    \* refreshMetadata() calls of the application on it
MaxTimerFires == 1       \* times its refresh timer fires
MaxPeelSteps == 4        \* iterations of the frame-peeling loop that are followed
MaxWireSends == 3        \* send() calls whose written bytes are followed
MaxRequestSizeCfg == 24   \* config.maxRequestSize, in bytes

\* ------------------------------------------------------ program constants
CorrelationModulus == 2147483647
HeaderSize == 4
SizeFieldLen == 4
PRODUCE == 0
METADATA == 3
API_VERSIONS == 18

DISCONNECTED == "DISCONNECTED"
CONNECTING == "CONNECTING"
CONNECTED == "CONNECTED"
CLOSING == "CLOSING"
ConnectionState == {DISCONNECTED, CONNECTING, CONNECTED, CLOSING}

\* ------------------------------------------------------------- the bytes
\* Buffer.writeInt32BE: the four bytes of a signed 32-bit integer.
WriteInt32BE(n) ==
    << (n \div 16777216) % 256, (n \div 65536) % 256, (n \div 256) % 256,
       n % 256 >>

\* Buffer.readInt32BE(offset): offset counts from 0; the first byte carries
\* the sign.
ReadInt32BE(buf, offset) ==
    LET b0 == buf[offset + 1]
    IN (IF b0 >= 128 THEN b0 - 256 ELSE b0) * 16777216
       + buf[offset + 2] * 65536 + buf[offset + 3] * 256 + buf[offset + 4]

\* Buffer.slice(start, end): indexes count from 0, a negative one counts
\* from the end, and both are clamped.
SliceIndex(buf, x) ==
    IF x < 0 THEN (IF Len(buf) + x < 0 THEN 0 ELSE Len(buf) + x)
    ELSE IF x > Len(buf) THEN Len(buf) ELSE x

Slice(buf, start, end) ==
    LET s == SliceIndex(buf, start)
        e == SliceIndex(buf, end)
    IN IF e <= s THEN << >> ELSE SubSeq(buf, s + 1, e)

\* A response frame as a broker writes it: size, correlation id, body.
ResponseFrame(cid, body) ==
    WriteInt32BE(HeaderSize + Len(body)) \o WriteInt32BE(cid) \o body

\* ------------------------------------------------------------- the state
VARIABLES
    state,                   \* this.state
    socket,                  \* this.socket: 0 is null, else a socket id
    correlationIdCounter,    \* this.correlationIdCounter
    inFlightRequests,        \* this.inFlightRequests: correlation id -> entry
    buffer,                  \* this.buffer (null is the empty sequence)
    connectionTimeout,       \* this.connectionTimeout: 0 is null, else a timer
    timers,                  \* connect timers that are armed
    requestTimeoutInterval,  \* this.requestTimeoutInterval: 0 is null
    intervals,               \* sweep intervals that are running
    sockets,                 \* the sockets created so far
    errorListener,           \* an on('error') listener is registered
    onceConnect,             \* once('connect') listeners of joined connect()s
    onceError,               \* once('error') listeners of joined connect()s
    connectPromises,         \* the promises connect() returned: of the call that
                             \* dialed each socket, and of the calls that joined;
                             \* recorded in the behaviours of SpecConnect only
    promises,                \* one entry per send() call
    writes,                  \* socket.write calls whose callback is pending
    now,                     \* Date.now()
    lastOp,                  \* the handler that ran last
    emits,                   \* the events it emitted, in order
    trace,                   \* the values it assigned to this.state, in order
    threw,                   \* it ended by throwing
    handled,                 \* the messages it passed to handleResponse
    stream,                  \* reassembly: the bytes the broker sends
    fed,                     \* reassembly: how many of them have arrived
    delivered,               \* reassembly: messages passed to handleResponse
    isRefreshingMetadata,    \* NetworkClient.isRefreshingMetadata
    autoRefreshMetadata,     \* NetworkClient.config.autoRefreshMetadata
    connections,             \* NetworkClient.connections: node ids, in insertion order
    up,                      \* isConnected() of each node's pooled connection; 0 is seedBrokers[0]
    clusterMetadata,         \* the cached brokers and the partition's leader
    calls,                   \* the calls of the client's async methods
    codec,                   \* a value, its encoding and what is decoded from it
    cluster,                 \* the ClusterMetadata and what its last call did
    versions,                \* the API version tables and what their last call did
    life,                    \* a NetworkClient from its constructor to close()
    peel,                    \* one 'data' event, iteration by iteration of its loop
    wire                     \* a connection and the bytes it wrote to its socket

connVars == << state, socket, correlationIdCounter, inFlightRequests, buffer,
               connectionTimeout, timers, requestTimeoutInterval, intervals,
               sockets, errorListener, onceConnect, onceError,
               connectPromises, promises, writes, lastOp, emits, trace, threw,
               handled >>
feedVars == << stream, fed, delivered >>
clientVars == << isRefreshingMetadata, autoRefreshMetadata, connections, up,
                clusterMetadata, calls >>
libVars == << codec, cluster, versions, life, peel, wire >>
vars == << connVars, now, feedVars, clientVars, libVars >>

SocketIds == 1 .. MaxSockets
\* A socket: phase is none (not created), connecting, open, readEnded (the
\* peer's FIN arrived), broken (destroyed by an error whose 'error' event is
\* still to come) or closed; attached: the handlers of connect() are still
\* registered; ended: socket.end() was called; idle: the setTimeout callback
\* is still registered; tail: the rest of a frame whose head has arrived.
NoSocket ==
    [phase |-> "none", attached |-> FALSE, ended |-> FALSE, idle |-> FALSE,
     tail |-> << >>]

\* The object's fields as a record, at the start of a handler.
Cur ==
    [state |-> state, socket |-> socket,
     correlationIdCounter |-> correlationIdCounter,
     inFlightRequests |-> inFlightRequests, buffer |-> buffer,
     connectionTimeout |-> connectionTimeout, timers |-> timers,
     requestTimeoutInterval |-> requestTimeoutInterval,
     intervals |-> intervals, sockets |-> sockets,
     errorListener |-> errorListener, onceConnect |-> onceConnect,
     onceError |-> onceError, connectPromises |-> connectPromises,
     promises |-> promises, writes |-> writes,
     emits |-> << >>, trace |-> << >>, threw |-> FALSE, handled |-> << >>]

\* The fields after the handler op returned c.
Apply(op, c) ==
    /\ state' = c.state
    /\ socket' = c.socket
    /\ correlationIdCounter' = c.correlationIdCounter
    /\ inFlightRequests' = c.inFlightRequests
    /\ buffer' = c.buffer
    /\ connectionTimeout' = c.connectionTimeout
    /\ timers' = c.timers
    /\ requestTimeoutInterval' = c.requestTimeoutInterval
    /\ intervals' = c.intervals
    /\ sockets' = c.sockets
    /\ errorListener' = c.errorListener
    /\ onceConnect' = c.onceConnect
    /\ onceError' = c.onceError
    /\ connectPromises' = c.connectPromises
    /\ promises' = c.promises
    /\ writes' = c.writes
    /\ lastOp' = op
    /\ emits' = c.emits
    /\ trace' = c.trace
    /\ threw' = c.threw
    /\ handled' = c.handled

\* The state after construction.
NewConnection ==
    [state |-> DISCONNECTED, socket |-> 0, correlationIdCounter |-> 0,
     inFlightRequests |-> << >>, buffer |-> << >>,
     connectionTimeout |-> 0, timers |-> {},
     requestTimeoutInterval |-> 0, intervals |-> {},
     sockets |-> [s \in SocketIds |-> NoSocket],
     errorListener |-> FALSE, onceConnect |-> 0, onceError |-> 0,
     connectPromises |-> [recorded |-> FALSE,
                         callers |-> [s \in SocketIds |-> "none"],
                         joiners |-> << >>],
     promises |-> << >>, writes |-> {},
     emits |-> << >>, trace |-> << >>, threw |-> FALSE, handled |-> << >>]


\* ------------------------------------------------------------ the helpers
\* EventEmitter.emit of an event other than 'error'.
Emit(c, ev) == [c EXCEPT !.emits = Append(@, ev)]

\* An assignment to this.state.
SetState(c, s) == [c EXCEPT !.state = s, !.trace = Append(@, s)]

\* A call of the resolve or reject of the promise of send() call r.
Settle(c, r, kind, body) ==
    [c EXCEPT !.promises[r].calls = Append(@, [kind |-> kind, body |-> body])]

\* resolve or reject of the promise of the connect() call that dialed
\* socket s; a promise keeps its first outcome.
SettleCaller(c, s, outcome) ==
    IF c.connectPromises.recorded /\ c.connectPromises.callers[s] = "pending"
    THEN [c EXCEPT !.connectPromises.callers[s] = outcome]
    ELSE c

\* The once() listeners of the connect() calls that joined an attempt: an
\* emit of 'connect' resolves, an emit of 'error' rejects their promises;
\* isConnected is what isConnected() returns at that moment.
SettleJoiners(c, outcome) ==
    [c EXCEPT !.connectPromises.joiners =
        [k \in DOMAIN @ |->
            IF @[k].outcome = "pending"
            THEN [outcome |-> outcome,
                  isConnected |-> c.state = CONNECTED /\ c.socket # 0]
            ELSE @[k]]]

\* Map.delete(cid).
MapDelete(m, cid) == [x \in DOMAIN m \ {cid} |-> m[x]]

\* Map.set(cid, entry).
MapSet(m, cid, entry) ==
    [x \in DOMAIN m \cup {cid} |-> IF x = cid THEN entry ELSE m[x]]

\* for (request of inFlightRequests.values()) request.reject(error);
\* inFlightRequests.clear()
RejectAllInFlight(c, kind) ==
    LET hit == {c.inFlightRequests[x].req : x \in DOMAIN c.inFlightRequests}
    IN [c EXCEPT
          !.promises = [r \in DOMAIN c.promises |->
              IF r \in hit
              THEN [c.promises[r] EXCEPT
                      !.calls = Append(@, [kind |-> kind, body |-> << >>])]
              ELSE c.promises[r]],
          !.inFlightRequests = << >>]

\* if (this.connectionTimeout) { clearTimeout(...); this.connectionTimeout = null }
ClearConnectionTimeout(c) ==
    IF c.connectionTimeout # 0
    THEN [c EXCEPT !.timers = @ \ {c.connectionTimeout}, !.connectionTimeout = 0]
    ELSE c

startRequestTimeoutTimer(c, id) ==
    [c EXCEPT !.intervals = @ \cup {id}, !.requestTimeoutInterval = id]

stopRequestTimeoutTimer(c) ==
    IF c.requestTimeoutInterval # 0
    THEN [c EXCEPT !.intervals = @ \ {c.requestTimeoutInterval},
                   !.requestTimeoutInterval = 0]
    ELSE c

\* isConnected as it would be if it looked at the socket alone.
isConnectedSocketOnly(c) == c.socket # 0

isConnected(c) == c.state = CONNECTED /\ c.socket # 0

\* ----------------------------------------------------------- the handlers
disconnect(c) ==
    IF c.state = DISCONNECTED
    THEN c
    ELSE LET c1 == SetState(c, CLOSING)
             c2 == stopRequestTimeoutTimer(ClearConnectionTimeout(c1))
             c3 == RejectAllInFlight(c2, "Disconnected")
             c4 == IF c3.socket # 0
                   THEN [c3 EXCEPT !.sockets[c3.socket].ended = TRUE,
                                   !.socket = 0]
                   ELSE c3
         IN Emit(SetState(c4, DISCONNECTED), "disconnect")

\* emit('error') throws when no listener is registered; the once('error')
\* listeners of joined connect() calls are listeners too, and are used up.
onError(c) ==
    IF ~c.errorListener /\ c.onceError = 0
    THEN [c EXCEPT !.threw = TRUE]
    ELSE disconnect(SettleJoiners([Emit(c, "error") EXCEPT !.onceError = 0],
                                  "rejected"))

\* onDisconnect as it would be if it left the requests in flight alone.
onDisconnectKeepsTable(c) ==
    LET wasConnected == c.state = CONNECTED
        c1 == SetState(c, DISCONNECTED)
        c2 == stopRequestTimeoutTimer(ClearConnectionTimeout(c1))
        c4 == IF c2.socket # 0
              THEN [c2 EXCEPT !.sockets[c2.socket].attached = FALSE,
                              !.sockets[c2.socket].idle = FALSE,
                              !.socket = 0]
              ELSE c2
    IN IF wasConnected THEN Emit(c4, "disconnect") ELSE c4

onDisconnect(c) ==
    LET wasConnected == c.state = CONNECTED
        c1 == SetState(c, DISCONNECTED)
        c2 == stopRequestTimeoutTimer(ClearConnectionTimeout(c1))
        c3 == RejectAllInFlight(c2, "Disconnected")
        c4 == IF c3.socket # 0
              THEN [c3 EXCEPT !.sockets[c3.socket].attached = FALSE,
                              !.sockets[c3.socket].idle = FALSE,
                              !.socket = 0]
              ELSE c3
    IN IF wasConnected THEN Emit(c4, "disconnect") ELSE c4

\* nextCorrelationId as it would be with a 32-bit increment and no modulus:
\* the counter runs into the sign bit.
nextCorrelationIdInt32(c) ==
    [c EXCEPT !.correlationIdCounter =
        IF @ = 2147483647 THEN 0 - 2147483647 - 1 ELSE @ + 1]

nextCorrelationId(c) ==
    [c EXCEPT !.correlationIdCounter = (@ + 1) % CorrelationModulus]

\* send(apiKey, apiVersion, requestData, timeout) at clock reading t; large
\* says that the frame exceeds config.maxRequestSize; timeout 0 is "none given".
send(c, timeout, large, t) ==
    LET r == Len(c.promises) + 1
    IN IF ~isConnected(c)
       THEN [c EXCEPT !.promises = Append(@,
                [accepted |-> FALSE, cid |-> 0,
                 calls |-> << [kind |-> "Disconnected", body |-> << >>] >>])]
       ELSE LET c1 == nextCorrelationId(c)
                correlationId == c1.correlationIdCounter
            IN IF large
               THEN [c1 EXCEPT !.promises = Append(@,
                        [accepted |-> FALSE, cid |-> correlationId,
                         calls |-> << [kind |-> "TooLarge", body |-> << >>] >>])]
               ELSE LET entry == [correlationId |-> correlationId,
                                  sentTime |-> t,
                                  timeout |-> IF timeout # 0 THEN timeout
                                              ELSE RequestTimeoutCfg,
                                  req |-> r]
                        c2 == Emit(c1, "bytesOut")
                        c3 == [c2 EXCEPT
                                 !.promises = Append(@,
                                     [accepted |-> TRUE, cid |-> correlationId,
                                      calls |-> << >>]),
                                 !.inFlightRequests =
                                     MapSet(@, correlationId, entry),
                                 !.writes = @ \cup
                                     {[req |-> r, cid |-> correlationId,
                                       sock |-> c.socket]}]
                    IN Emit(c3, "request")

\* The callback of socket.write, called with an error.
writeFailed(c, w) ==
    Settle([c EXCEPT !.inFlightRequests = MapDelete(@, w.cid),
                     !.writes = @ \ {w}],
           w.req, "Error", << >>)

\* handleResponse as it would be if it matched responses to requests in
\* arrival order: the oldest request in flight takes the body.
handleResponseArrivalOrder(c, responseBuffer) ==
    LET c0 == [c EXCEPT !.handled = Append(@, responseBuffer)]
    IN IF Len(responseBuffer) < HeaderSize
       THEN onError(c0)
       ELSE IF DOMAIN c0.inFlightRequests = {}
       THEN c0
       ELSE LET oldest == CHOOSE x \in DOMAIN c0.inFlightRequests :
                              \A y \in DOMAIN c0.inFlightRequests : x <= y
                request == c0.inFlightRequests[oldest]
                c1 == [c0 EXCEPT !.inFlightRequests = MapDelete(@, oldest)]
            IN Settle(Emit(c1, "response"), request.req, "Resolved",
                      Slice(responseBuffer, HeaderSize, Len(responseBuffer)))

handleResponse(c, responseBuffer) ==
    LET c0 == [c EXCEPT !.handled = Append(@, responseBuffer)]
    IN IF Len(responseBuffer) < HeaderSize
       THEN onError(c0)   \* readInt32BE throws, the catch calls onError
       ELSE LET correlationId == ReadInt32BE(responseBuffer, 0)
            IN IF correlationId \notin DOMAIN c0.inFlightRequests
               THEN c0
               ELSE LET request == c0.inFlightRequests[correlationId]
                        c1 == [c0 EXCEPT !.inFlightRequests =
                                             MapDelete(@, correlationId)]
                        c2 == Emit(c1, "response")
                        c3 == IF /\ Len(responseBuffer) >= HeaderSize + 4
                                 /\ ReadInt32BE(responseBuffer, HeaderSize) > 0
                              THEN Emit(c2, "throttle")
                              ELSE c2
                    IN Settle(c3, request.req, "Resolved",
                              Slice(responseBuffer, HeaderSize,
                                    Len(responseBuffer)))

\* The while loop of handleIncomingData: the fields and the cursor after it.
RECURSIVE PeelFrames(_, _)
PeelFrames(c, processed) ==
    IF ~(processed < Len(c.buffer)) \/ Len(c.buffer) - processed < SizeFieldLen
    THEN [c |-> c, processed |-> processed]
    ELSE LET messageSize == ReadInt32BE(c.buffer, processed)
         IN IF Len(c.buffer) - processed - SizeFieldLen < messageSize
            THEN [c |-> c, processed |-> processed]
            ELSE LET message == Slice(c.buffer, processed + SizeFieldLen,
                                      processed + SizeFieldLen + messageSize)
                     c1 == handleResponse(c, message)
                 IN IF c1.threw
                    THEN [c |-> c1, processed |-> processed]
                    ELSE PeelFrames(c1, processed + SizeFieldLen + messageSize)

\* handleIncomingData as it would be if it forgot the bytes of an incomplete
\* frame.
handleIncomingDataDropsRest(c, data) ==
    LET c1 == [Emit(c, "bytesIn") EXCEPT !.buffer = @ \o data]
        p == PeelFrames(c1, 0)
    IN [p.c EXCEPT !.buffer = << >>]

handleIncomingData(c, data) ==
    LET c1 == [Emit(c, "bytesIn") EXCEPT !.buffer = @ \o data]
        p == PeelFrames(c1, 0)
    IN IF p.c.threw \/ p.processed = 0
       THEN p.c
       ELSE [p.c EXCEPT !.buffer = Slice(@, p.processed, Len(@))]

\* The sweep as it would be if it rejected every request in flight, whatever
\* its age.
sweepAll(c, t) ==
    LET gone == {c.inFlightRequests[x].req : x \in DOMAIN c.inFlightRequests}
    IN [c EXCEPT
          !.inFlightRequests = << >>,
          !.promises = [r \in DOMAIN c.promises |->
              IF r \in gone
              THEN [c.promises[r] EXCEPT
                      !.calls = Append(@, [kind |-> "Timeout", body |-> << >>])]
              ELSE c.promises[r]]]

\* The interval callback of startRequestTimeoutTimer at clock reading t.
sweep(c, t) ==
    LET old == {x \in DOMAIN c.inFlightRequests :
                   t - c.inFlightRequests[x].sentTime
                       > c.inFlightRequests[x].timeout}
        gone == {c.inFlightRequests[x].req : x \in old}
    IN [c EXCEPT
          !.inFlightRequests = [x \in DOMAIN @ \ old |-> @[x]],
          !.promises = [r \in DOMAIN c.promises |->
              IF r \in gone
              THEN [c.promises[r] EXCEPT
                      !.calls = Append(@, [kind |-> "Timeout", body |-> << >>])]
              ELSE c.promises[r]]]


\* connect() when it dials: s is the socket that net.connect returns.
dial(c, s) ==
    [SetState(c, CONNECTING) EXCEPT
        !.socket = s,
        !.sockets[s] = [phase |-> "connecting", attached |-> TRUE,
                        ended |-> FALSE, idle |-> TRUE, tail |-> << >>],
        !.connectionTimeout = s,
        !.timers = @ \cup {s},
        !.connectPromises.callers[s] = IF c.connectPromises.recorded
                                       THEN "pending" ELSE @]

\* connect() joining the attempt in flight: the two once() listeners.
join(c) ==
    [c EXCEPT !.onceConnect = @ + 1, !.onceError = @ + 1,
              !.connectPromises.joiners =
                  IF c.connectPromises.recorded
                  THEN Append(@, [outcome |-> "pending", isConnected |-> FALSE])
                  ELSE @]

\* connect() as it would be without its check for CONNECTED.
connectAlwaysDials(c, s) ==
    IF c.state = CONNECTING THEN join(c) ELSE dial(c, s)

connect(c, s) ==
    IF c.state = CONNECTED THEN c
    ELSE IF c.state = CONNECTING THEN join(c)
    ELSE dial(c, s)

\* The 'connect' handler of socket s.
onSocketConnect(c, s) ==
    LET c1 == SetState(ClearConnectionTimeout(c), CONNECTED)
        c2 == startRequestTimeoutTimer(c1, s)
        c3 == SettleJoiners([Emit(c2, "connect") EXCEPT !.onceConnect = 0],
                            "resolved")
    IN SettleCaller(c3, s, "resolved")

\* The callback of the connect timer of socket s, and the 'error' handler of
\* socket s: reject(error) is reached only if onError returns.
onDialError(c, s) ==
    LET c1 == onError(c)
    IN IF c1.threw THEN c1 ELSE SettleCaller(c1, s, "rejected")

\* The 'end' handler of socket s.
onSocketEnd(c, s) == SettleCaller(onDisconnect(c), s, "rejected")

\* ---------------------------------------------------------- the environment
FrameCids == 1 .. MaxRequests
\* The body the broker answers the request with correlation id cid with; the
\* first four bytes of a long body are read as the throttle time.
BodyOf(cid) == IF cid % 2 = 1 THEN << 7 >> ELSE << 0, 0, 0, 9 >>
Frames == { ResponseFrame(cid, BodyOf(cid)) : cid \in FrameCids }
ShortFrame == WriteInt32BE(0)
Timeouts == {0, 1}

LiveSocket(s) == sockets[s].phase \in {"connecting", "open", "readEnded"}
FreeSockets == {s \in SocketIds : sockets[s].phase = "none"}
NewSocket == CHOOSE s \in FreeSockets : \A x \in FreeSockets : s <= x

Quiet == UNCHANGED << now, feedVars, clientVars, libVars >>

\* A NetworkClient that nobody has called yet.
NodeIds == 1 .. MaxNodes
NoCall ==
    [kind |-> "none", node |-> 0, pcL |-> "idle", pcS |-> "idle",
     pcR |-> "idle", broker |-> 0, todo |-> << >>, keep |-> {},
     err |-> "none", log |-> << >>, results |-> << >>, saw |-> << >>,
     dialLog |-> << >>, evicted |-> << >>, outcome |-> "pending"]
\* The cache as a record of its fields, with what its last call was given and
\* did: fields topics (name -> TopicMetadata), brokers (nodeId -> Broker),
\* clusterId, controllerId, isMetadataInitialized; emits are its 'update'
\* events, metadataUpdates what the NetworkClient's listener forwards, and
\* before the topics the last updateMetadata found in the cache.
NewClusterMetadata ==
    [topics |-> << >>, brokers |-> << >>, clusterId |-> "null",
     controllerId |-> 0 - 1, isMetadataInitialized |-> FALSE,
     emits |-> << >>, metadataUpdates |-> << >>, updates |-> 0,
     lastOp |-> "new", call |-> << >>, before |-> << >>,
     updatedTopics |-> << >>, found |-> << >>]

\* The NetworkClient's apiVersions map and the protocol layer's ApiVersions
\* (versionRanges and its defaults, constructed without argument), both
\* empty, with what the last call was given and returned; lastOk is the
\* ranges of the last ApiVersions response without error.
NewVersions ==
    [apiVersions |-> << >>, versionRanges |-> << >>,
     defaultMinVersion |-> 0, defaultMaxVersion |-> 0, threw |-> FALSE,
     calls |-> 0, lastOp |-> "new", call |-> << >>, result |-> << >>,
     lastOk |-> << >>]

\* A NetworkClient after its constructor, with a connection per seed and
\* room for one per node: connectCall is the call of connect(), refresh the
\* refreshMetadata call that holds the flag, timer the handle in
\* metadataRefreshTimer and whether its timeout is pending, log what happened.
ConnOf(nodeId) == MaxSeeds + nodeId
ConnIds == 1 .. MaxSeeds + MaxNodes
NewConn ==
    [state |-> DISCONNECTED, socket |-> FALSE, attempt |-> FALSE,
     dialer |-> "none", joined |-> {}, onceError |-> 0]

NewNetworkClient ==
    [isInitialized |-> FALSE, isClosed |-> FALSE,
     isRefreshingMetadata |-> FALSE,
     timer |-> [set |-> FALSE, pending |-> FALSE],
     seedBrokers |-> [k \in 1 .. MaxSeeds |-> k], connections |-> << >>,
     conn |-> [c \in ConnIds |-> NewConn],
     connectCall |-> [pc |-> "idle", seeds |-> << >>, at |-> 0, errors |-> 0,
                      broker |-> 0, outcome |-> "none"],
     refresh |-> [pc |-> "idle", owner |-> "none", broker |-> 0,
                  todo |-> << >>, keep |-> {}],
     userCalls |-> 0, fires |-> 0, closed |-> FALSE, log |-> << >>]

\* Nothing has been encoded or decoded; the cache, the tables and the
\* NetworkClient are new; no 'data' event is being handled and nothing has
\* been written.
LibAtRest ==
    /\ codec = [pc |-> "none"]
    /\ cluster = NewClusterMetadata
    /\ versions = NewVersions
    /\ life = NewNetworkClient
    /\ peel = [pc |-> "none"]
    /\ wire = [pc |-> "none"]

IdleClient ==
    /\ isRefreshingMetadata = FALSE
    /\ autoRefreshMetadata = TRUE
    /\ connections = << >>
    /\ up = [x \in 0 .. MaxNodes |-> FALSE]
    /\ clusterMetadata = [brokers |-> << >>, leader |-> 0 - 1]
    /\ calls = [i \in 1 .. MaxCalls |-> NoCall]

\* ------------------------------------------------------------- the actions
\* The connection after construction.
ConnectionAtRest ==
    /\ state = NewConnection.state
    /\ socket = NewConnection.socket
    /\ correlationIdCounter = NewConnection.correlationIdCounter
    /\ inFlightRequests = NewConnection.inFlightRequests
    /\ buffer = NewConnection.buffer
    /\ connectionTimeout = NewConnection.connectionTimeout
    /\ timers = NewConnection.timers
    /\ requestTimeoutInterval = NewConnection.requestTimeoutInterval
    /\ intervals = NewConnection.intervals
    /\ sockets = NewConnection.sockets
    /\ errorListener = NewConnection.errorListener
    /\ onceConnect = NewConnection.onceConnect
    /\ onceError = NewConnection.onceError
    /\ connectPromises = NewConnection.connectPromises
    /\ promises = NewConnection.promises
    /\ writes = NewConnection.writes
    /\ now = 0
    /\ lastOp = "new"
    /\ emits = << >>
    /\ trace = << >>
    /\ threw = FALSE
    /\ handled = << >>
    /\ stream = << >>
    /\ fed = 0
    /\ delivered = << >>

Init ==
    /\ ConnectionAtRest
    /\ IdleClient
    /\ LibAtRest

\* connection.on('error', listener)
AddErrorListener ==
    /\ ~errorListener
    /\ Apply("on", [Cur EXCEPT !.errorListener = TRUE])
    /\ Quiet

Connect ==
    /\ state = CONNECTING => onceError < MaxJoins
    /\ state \notin {CONNECTED, CONNECTING} =>
          /\ FreeSockets # {}
          /\ FreeSockets # SocketIds => Len(promises) <= MaxRedialRequests
    /\ Apply("connect", connect(Cur, IF FreeSockets # {} THEN NewSocket ELSE 0))
    /\ Quiet

Disconnect ==
    /\ Apply("disconnect", disconnect(Cur))
    /\ Quiet

Send ==
    /\ Len(promises) < MaxRequests
    /\ Cardinality(SocketIds \ FreeSockets) > 1 =>
          Len(promises) < MaxRedialRequests
    /\ \E timeout \in Timeouts, large \in BOOLEAN :
          /\ now + (IF timeout # 0 THEN timeout ELSE RequestTimeoutCfg) < MaxNow
          /\ Apply("send", send(Cur, timeout, large, now))
    /\ Quiet

SocketConnect ==
    \E s \in SocketIds :
        /\ sockets[s].phase = "connecting"
        /\ LET c0 == [Cur EXCEPT !.sockets[s].phase = "open"]
           IN Apply("socket.connect",
                    IF sockets[s].attached THEN onSocketConnect(c0, s) ELSE c0)
        /\ Quiet

SocketData ==
    \E s \in SocketIds :
        /\ sockets[s].phase = "open"
        /\ sockets[s].attached
        /\ \E f \in Frames \cup {ShortFrame}, whole \in BOOLEAN :
              LET rest == sockets[s].tail
                  data == IF rest # << >> THEN rest
                          ELSE IF whole \/ Len(f) <= SplitAt THEN f
                          ELSE SubSeq(f, 1, SplitAt)
                  left == IF rest # << >> \/ whole \/ Len(f) <= SplitAt
                          THEN << >>
                          ELSE SubSeq(f, SplitAt + 1, Len(f))
                  c0 == [Cur EXCEPT !.sockets[s].tail = left]
              IN /\ Len(buffer) + Len(data) <= MaxBuffer
                 /\ Apply("socket.data", handleIncomingData(c0, data))
        /\ Quiet

\* 'error', followed by 'close' with hadError, whose handler does nothing.
SocketError ==
    \E s \in SocketIds :
        /\ LiveSocket(s) \/ sockets[s].phase = "broken"
        /\ LET c0 == [Cur EXCEPT !.sockets[s].phase = "closed"]
           IN Apply("socket.error",
                    IF sockets[s].attached THEN onDialError(c0, s) ELSE c0)
        /\ Quiet

SocketEnd ==
    \E s \in SocketIds :
        /\ sockets[s].phase = "open"
        /\ LET c0 == [Cur EXCEPT !.sockets[s].phase = "readEnded"]
           IN Apply("socket.end",
                    IF sockets[s].attached THEN onSocketEnd(c0, s) ELSE c0)
        /\ Quiet

\* 'close' without an error.
SocketClose ==
    \E s \in SocketIds :
        /\ sockets[s].phase = "readEnded"
        /\ LET c0 == [Cur EXCEPT !.sockets[s].phase = "closed"]
           IN Apply("socket.close",
                    IF sockets[s].attached THEN onDisconnect(c0) ELSE c0)
        /\ Quiet

\* The callback of socket.setTimeout.
SocketTimeout ==
    \E s \in SocketIds :
        /\ LiveSocket(s)
        /\ sockets[s].idle
        /\ Apply("socket.timeout", onError([Cur EXCEPT !.sockets[s].idle = FALSE]))
        /\ Quiet

\* The callback of the connect timer.
ConnectionTimeoutFires ==
    \E t \in timers :
        /\ Apply("connectionTimeout",
                 onDialError([Cur EXCEPT !.timers = @ \ {t}], t))
        /\ Quiet

\* The callback of the sweep interval.
Sweep ==
    /\ intervals # {}
    /\ Apply("sweep", sweep(Cur, now))
    /\ Quiet

\* The callback of socket.write, without an error.
WriteDone ==
    \E w \in writes :
        /\ sockets[w.sock].phase \in {"open", "readEnded"}
        /\ Apply("write.done", [Cur EXCEPT !.writes = @ \ {w}])
        /\ Quiet

\* The callback of socket.write, with an error; the error destroys the socket.
WriteFail ==
    \E w \in writes :
        /\ LET c0 == IF LiveSocket(w.sock)
                     THEN [Cur EXCEPT !.sockets[w.sock].phase = "broken"]
                     ELSE Cur
           IN Apply("write.error", writeFailed(c0, w))
        /\ Quiet

\* The clock is read at send() and by the sweep only: its advance shows
\* while a request is in flight.
Tick ==
    /\ now < MaxNow
    /\ DOMAIN inFlightRequests # {}
    /\ now' = now + 1
    /\ Apply("tick", Cur)
    /\ UNCHANGED << feedVars, clientVars, libVars >>

Next ==
    \/ AddErrorListener
    \/ Connect
    \/ Disconnect
    \/ Send
    \/ SocketConnect
    \/ SocketData
    \/ SocketError
    \/ SocketEnd
    \/ SocketClose
    \/ SocketTimeout
    \/ ConnectionTimeoutFires
    \/ Sweep
    \/ WriteDone
    \/ WriteFail
    \/ Tick

Spec == Init /\ [][Next]_vars

\* The connection's life without requests, with the promises of its
\* connect() calls recorded.
InitConnect ==
    /\ state = NewConnection.state
    /\ socket = NewConnection.socket
    /\ correlationIdCounter = NewConnection.correlationIdCounter
    /\ inFlightRequests = NewConnection.inFlightRequests
    /\ buffer = NewConnection.buffer
    /\ connectionTimeout = NewConnection.connectionTimeout
    /\ timers = NewConnection.timers
    /\ requestTimeoutInterval = NewConnection.requestTimeoutInterval
    /\ intervals = NewConnection.intervals
    /\ sockets = NewConnection.sockets
    /\ errorListener = NewConnection.errorListener
    /\ onceConnect = NewConnection.onceConnect
    /\ onceError = NewConnection.onceError
    /\ connectPromises = [NewConnection.connectPromises EXCEPT !.recorded = TRUE]
    /\ promises = NewConnection.promises
    /\ writes = NewConnection.writes
    /\ now = 0
    /\ lastOp = "new"
    /\ emits = << >>
    /\ trace = << >>
    /\ threw = FALSE
    /\ handled = << >>
    /\ stream = << >>
    /\ fed = 0
    /\ delivered = << >>
    /\ IdleClient
    /\ LibAtRest

NextConnect ==
    \/ AddErrorListener
    \/ Connect
    \/ Disconnect
    \/ SocketConnect
    \/ SocketError
    \/ SocketEnd
    \/ SocketClose
    \/ SocketTimeout
    \/ ConnectionTimeoutFires

SpecConnect == InitConnect /\ [][NextConnect]_vars


\* The scheduling of timers: the clock advances and the sweep interval fires.
FairSpec == Spec /\ WF_vars(Tick) /\ WF_vars(Sweep)

\* --------------------------------------------------- reassembly of frames
\* A CONNECTED connection with MaxRequests requests in flight: the state after
\* connect(), the socket's 'connect' and the send() calls.
RECURSIVE SendN(_, _)
SendN(c, n) == IF n = 0 THEN c ELSE send(SendN(c, n - 1), 0, FALSE, 0)

Established ==
    SendN(onSocketConnect([dial(NewConnection, 1) EXCEPT
                              !.sockets[1].phase = "open"], 1),
          MaxRequests)

FedCids == 1 .. MaxRequests + 1
FedBodies == { << >>, << 7 >>, << 0, 0, 0, 9 >> }
FedFrames == [cid : FedCids, body : FedBodies]
FedStreams == UNION { [1 .. n -> FedFrames] : n \in 1 .. MaxFrames }

RECURSIVE StreamBytes(_)
StreamBytes(fs) ==
    IF fs = << >> THEN << >>
    ELSE ResponseFrame(Head(fs).cid, Head(fs).body) \o StreamBytes(Tail(fs))

InitFrames ==
    /\ state = Established.state
    /\ socket = Established.socket
    /\ correlationIdCounter = Established.correlationIdCounter
    /\ inFlightRequests = Established.inFlightRequests
    /\ buffer = Established.buffer
    /\ connectionTimeout = Established.connectionTimeout
    /\ timers = Established.timers
    /\ requestTimeoutInterval = Established.requestTimeoutInterval
    /\ intervals = Established.intervals
    /\ sockets = Established.sockets
    /\ errorListener = Established.errorListener
    /\ onceConnect = Established.onceConnect
    /\ onceError = Established.onceError
    /\ connectPromises = Established.connectPromises
    /\ promises = Established.promises
    /\ writes = Established.writes
    /\ now = 0
    /\ lastOp = "send"
    /\ emits = << >>
    /\ trace = << >>
    /\ threw = FALSE
    /\ handled = << >>
    /\ stream \in FedStreams
    /\ fed = 0
    /\ delivered = << >>
    /\ IdleClient
    /\ LibAtRest

\* The next n bytes of the stream arrive in one 'data' event.
Feed ==
    \E n \in 1 .. Len(StreamBytes(stream)) - fed :
        LET data == SubSeq(StreamBytes(stream), fed + 1, fed + n)
            c == handleIncomingData(Cur, data)
        IN /\ Apply("socket.data", c)
           /\ fed' = fed + n
           /\ delivered' = delivered \o c.handled
           /\ UNCHANGED << now, stream, clientVars, libVars >>

NextFrames == Feed

SpecFrames == InitFrames /\ [][NextFrames]_vars


\* ------------------------------------------------ correlation id allocation
\* A CONNECTED connection whose counter is near 0 or near the modulus.
IdStarts ==
    (0 .. IdWindow) \cup
    (CorrelationModulus - 1 - IdWindow .. CorrelationModulus - 1)

InitIds ==
    /\ state = Established.state
    /\ socket = Established.socket
    /\ correlationIdCounter \in IdStarts
    /\ inFlightRequests = << >>
    /\ buffer = Established.buffer
    /\ connectionTimeout = Established.connectionTimeout
    /\ timers = Established.timers
    /\ requestTimeoutInterval = Established.requestTimeoutInterval
    /\ intervals = Established.intervals
    /\ sockets = Established.sockets
    /\ errorListener = Established.errorListener
    /\ onceConnect = Established.onceConnect
    /\ onceError = Established.onceError
    /\ connectPromises = Established.connectPromises
    /\ promises = << >>
    /\ writes = {}
    /\ now = 0
    /\ lastOp = "socket.connect"
    /\ emits = << >>
    /\ trace = << >>
    /\ threw = FALSE
    /\ handled = << >>
    /\ stream = << >>
    /\ fed = 0
    /\ delivered = << >>
    /\ IdleClient
    /\ LibAtRest

SendId ==
    /\ Len(promises) < MaxIdSends
    /\ \E timeout \in Timeouts, large \in BOOLEAN :
          Apply("send", send(Cur, timeout, large, now))
    /\ Quiet

NextIds == SendId

SpecIds == InitIds /\ [][NextIds]_vars


\* A CONNECTED connection whose counter has gone round since it sent a
\* request that is still in flight: the request holds a correlation id that
\* the counter is about to reach, or has just passed, again.
LongLived(cid) ==
    [correlationId |-> cid, sentTime |-> 0, timeout |-> RequestTimeoutCfg,
     req |-> 1]

InitWrap ==
    /\ state = Established.state
    /\ socket = Established.socket
    /\ correlationIdCounter \in IdStarts
    /\ \E cid \in IdStarts :
          /\ inFlightRequests = MapSet(<< >>, cid, LongLived(cid))
          /\ promises = << [accepted |-> TRUE, cid |-> cid, calls |-> << >>] >>
    /\ buffer = Established.buffer
    /\ connectionTimeout = Established.connectionTimeout
    /\ timers = Established.timers
    /\ requestTimeoutInterval = Established.requestTimeoutInterval
    /\ intervals = Established.intervals
    /\ sockets = Established.sockets
    /\ errorListener = Established.errorListener
    /\ onceConnect = Established.onceConnect
    /\ onceError = Established.onceError
    /\ connectPromises = Established.connectPromises
    /\ writes = {}
    /\ now = 0
    /\ lastOp = "send"
    /\ emits = << >>
    /\ trace = << >>
    /\ threw = FALSE
    /\ handled = << >>
    /\ stream = << >>
    /\ fed = 0
    /\ delivered = << >>
    /\ IdleClient
    /\ LibAtRest

SpecWrap == InitWrap /\ [][NextIds]_vars

\* ------------------------------------------------------ the NetworkClient
\* The fields of the client as a record, at the start of a step.
CurClient ==
    [isRefreshingMetadata |-> isRefreshingMetadata,
     autoRefreshMetadata |-> autoRefreshMetadata,
     connections |-> connections, up |-> up,
     clusterMetadata |-> clusterMetadata, calls |-> calls]

ApplyClient(n) ==
    /\ isRefreshingMetadata' = n.isRefreshingMetadata
    /\ autoRefreshMetadata' = n.autoRefreshMetadata
    /\ connections' = n.connections
    /\ up' = n.up
    /\ clusterMetadata' = n.clusterMetadata
    /\ calls' = n.calls
    /\ UNCHANGED << connVars, now, feedVars, libVars >>

Pooled(n) == {n.connections[k] : k \in DOMAIN n.connections}

\* The toggle as it would be if the handlers did not read the configuration.
autoRefreshAlways(n) == TRUE

\* this.config.autoRefreshMetadata
autoRefresh(n) == n.autoRefreshMetadata

\* const connection = this.connections.get(nodeId);
\* connection && connection.isConnected()
HasConnected(n, nodeId) == nodeId \in Pooled(n) /\ n.up[nodeId]

Log(n, i, e) == [n EXCEPT !.calls[i].log = Append(@, e)]

Complete(n, i, res) ==
    [n EXCEPT !.calls[i].outcome = res, !.calls[i].pcL = "idle",
              !.calls[i].pcS = "idle", !.calls[i].pcR = "idle"]

\* The call whose refresh holds the single-flight flag, and which of its
\* refreshes it is.
Holder(n) ==
    LET j == CHOOSE j \in 1 .. MaxCalls : n.calls[j].pcR # "idle"
    IN << j, Len(n.calls[j].results) + 1 >>

RECURSIVE refreshMetadata(_, _)
RECURSIVE finishRefresh(_, _, _)
RECURSIVE returnFromRefresh(_, _, _)
RECURSIVE failSend(_, _, _)
RECURSIVE sendRequest(_, _, _)
RECURSIVE rejectSend(_, _, _)
RECURSIVE dropFrom(_, _, _)
RECURSIVE updateBrokerConnections(_, _)

\* sendRequest, or the catch block of sendToPartitionLeader, ends with error e.
failSend(n, i, e) ==
    LET n1 == [n EXCEPT !.calls[i].pcS = "idle"]
    IN IF /\ n.calls[i].kind = "sendToPartitionLeader"
          /\ n.calls[i].pcL = "first"
          /\ autoRefresh(n)
       THEN refreshMetadata(Log([n1 EXCEPT !.calls[i].pcL = "refresh"], i, "catch"), i)
       ELSE Complete(n1, i, e)

\* sendRequest(nodeId, ...) up to its first await.
sendRequest(n, i, nodeId) ==
    LET n1 == [n EXCEPT !.calls[i].node = nodeId]
    IN IF HasConnected(n1, nodeId)
       THEN Log(Log([n1 EXCEPT !.calls[i].pcS = "send"], i, "hit"), i, "send")
       ELSE IF autoRefresh(n)
       THEN refreshMetadata(Log([n1 EXCEPT !.calls[i].pcS = "refresh1"], i, "miss"), i)
       ELSE failSend(Log(n1, i, "miss"), i, "Disconnected")

\* The code after an await of refreshMetadata() that ended with res.
returnFromRefresh(n, i, res) ==
    LET c == n.calls[i]
    IN IF c.pcS = "refresh1"
       THEN IF res # "ok" THEN failSend(n, i, res)
            ELSE IF HasConnected(n, c.node)
                 THEN Log(Log([n EXCEPT !.calls[i].pcS = "send"], i, "found"), i, "send")
                 ELSE failSend(Log(n, i, "missing"), i, "Disconnected")
       ELSE IF c.pcS = "refresh2"
       THEN IF res # "ok" THEN failSend(n, i, res)
            ELSE IF HasConnected(n, c.node)
                 THEN Log(Log([n EXCEPT !.calls[i].pcS = "resend"], i, "found"), i, "send")
                 ELSE failSend(Log(n, i, "missing"), i, c.err)
       ELSE IF c.pcL = "refresh"
       THEN IF res # "ok" THEN Complete(n, i, res)
            ELSE IF n.clusterMetadata.leader < 0
                 THEN Complete(Log(n, i, "noLeader"), i, "LeaderNotAvailable")
                 ELSE sendRequest([n EXCEPT !.calls[i].pcL = "second"], i,
                                  n.clusterMetadata.leader)
       ELSE Complete(n, i, res)

\* The catch and finally blocks of refreshMetadata.
finishRefresh(n, i, res) ==
    LET n1 == [n EXCEPT !.isRefreshingMetadata = FALSE,
                        !.calls[i].pcR = "idle",
                        !.calls[i].todo = << >>,
                        !.calls[i].keep = {},
                        !.calls[i].broker = 0,
                        !.calls[i].results =
                            Append(@, [res |-> res,
                                       dials |-> n.calls[i].dialLog,
                                       evicted |-> n.calls[i].evicted])]
    IN returnFromRefresh(Log(n1, i, IF res = "ok" THEN "refreshed"
                                    ELSE "refreshFailed"), i, res)

\* refreshMetadata as it would be without the single-flight flag.
refreshMetadataUnguarded(n, i) ==
    LET n1 == Log([n EXCEPT !.isRefreshingMetadata = TRUE,
                            !.calls[i].dialLog = << >>,
                            !.calls[i].evicted = << >>], i, "run")
    IN IF n1.connections # << >>
       THEN LET b == Head(n1.connections)
            IN IF n1.up[b]
               THEN [n1 EXCEPT !.calls[i].pcR = "send", !.calls[i].broker = b]
               ELSE finishRefresh(n1, i, "Disconnected")
       ELSE IF n1.up[0]
            THEN [n1 EXCEPT !.calls[i].pcR = "send", !.calls[i].broker = 0]
            ELSE [n1 EXCEPT !.calls[i].pcR = "seedConnect"]

\* refreshMetadata() up to its first await.
refreshMetadata(n, i) ==
    IF n.isRefreshingMetadata
    THEN returnFromRefresh(
             Log([n EXCEPT !.calls[i].saw = Append(@, Holder(n))], i, "overlap"),
             i, "ok")
    ELSE LET n1 == Log([n EXCEPT !.isRefreshingMetadata = TRUE,
                                 !.calls[i].dialLog = << >>,
                                 !.calls[i].evicted = << >>], i, "run")
         IN IF n1.connections # << >>
            THEN LET b == Head(n1.connections)
                 IN IF n1.up[b]
                    THEN [n1 EXCEPT !.calls[i].pcR = "send", !.calls[i].broker = b]
                    ELSE finishRefresh(n1, i, "Disconnected")
            ELSE IF n1.up[0]
                 THEN [n1 EXCEPT !.calls[i].pcR = "send", !.calls[i].broker = 0]
                 ELSE [n1 EXCEPT !.calls[i].pcR = "seedConnect"]

\* A promise of connection.send of call i is rejected with error kind.
rejectSend(n, i, kind) ==
    LET n1 == Log(n, i, kind)
    IN IF n.calls[i].pcS = "send" /\ kind = "Disconnected" /\ autoRefresh(n)
       THEN refreshMetadata([n1 EXCEPT !.calls[i].pcS = "refresh2",
                                       !.calls[i].err = kind], i)
       ELSE failSend(n1, i, kind)

\* The pooled connection of node x (0: the seed) is torn down: the requests in
\* flight on it, of the calls from j on, are rejected with Disconnected.
dropFrom(n, x, j) ==
    IF j > MaxCalls THEN n
    ELSE LET c == n.calls[j]
             n1 == IF c.pcR = "send" /\ c.broker = x
                   THEN finishRefresh(n, j, "Disconnected")
                   ELSE IF c.pcR = "idle" /\ c.pcS \in {"send", "resend"}
                           /\ c.node = x
                   THEN rejectSend(n, j, "Disconnected")
                   ELSE n
         IN dropFrom(n1, x, j + 1)

dropConnection(n, x) == dropFrom([n EXCEPT !.up[x] = FALSE], x, 1)

RECURSIVE evict(_, _, _)
\* The second loop of updateBrokerConnections, run by call i over the ids gone.
evict(n, i, gone) ==
    IF gone = << >> THEN n
    ELSE LET x == Head(gone)
             n1 == dropConnection(n, x)
             n2 == [n1 EXCEPT !.connections = SelectSeq(@, LAMBDA y : y # x),
                              !.calls[i].evicted = Append(@, x)]
         IN evict(n2, i, Tail(gone))


\* updateBrokerConnections from the broker at the head of todo up to the
\* next await of connection.connect(), or to its end.
updateBrokerConnections(n, i) ==
    LET c == n.calls[i]
    IN IF c.todo = << >>
       THEN LET gone == SelectSeq(n.connections, LAMBDA y : y \notin c.keep)
                n1 == evict([n EXCEPT !.calls[i].pcR = "evict"], i, gone)
            IN finishRefresh(n1, i, "ok")
       ELSE IF Head(c.todo) \in Pooled(n)
            THEN updateBrokerConnections([n EXCEPT !.calls[i].todo = Tail(@)], i)
            ELSE [n EXCEPT !.calls[i].pcR = "dial"]

\* clusterMetadata.updateMetadata and the start of the reconciliation.
metadataReceived(n, i, snap) ==
    updateBrokerConnections(
        [n EXCEPT !.clusterMetadata = snap,
                  !.calls[i].todo = snap.brokers,
                  !.calls[i].keep = {snap.brokers[k] : k \in DOMAIN snap.brokers}],
        i)

\* The socket of a connection that has no 'error' listener fails to connect:
\* onError's emit('error') throws out of the socket's event handler before
\* reject(error) (part_005:481-484, 235-238), so the connect() promise that
\* call i awaits never settles.
connectThrows(n, i) ==
    Log([n EXCEPT !.calls[i].pcR = "uncaught"], i, "uncaught")

\* await connection.connect() in updateBrokerConnections: the dial of the new
\* connection, which gets its 'error' listener only after it, succeeds and
\* the loop goes on, or fails.
dialed(n, i, ok) ==
    LET x == Head(n.calls[i].todo)
        n0 == [n EXCEPT !.calls[i].dialLog = Append(@, << x, ok >>)]
    IN IF ok
       THEN updateBrokerConnections(
                [n0 EXCEPT !.connections = Append(@, x), !.up[x] = TRUE,
                           !.calls[i].todo = Tail(@)], i)
       ELSE connectThrows(n0, i)

\* sendToPartitionLeader up to its first await.
sendToPartitionLeader(n, i) ==
    IF n.clusterMetadata.leader < 0
    THEN IF autoRefresh(n)
         THEN refreshMetadata(
                  Log(Log([n EXCEPT !.calls[i].pcL = "refresh"], i, "noLeader"),
                      i, "catch"),
                  i)
         ELSE Complete(Log(n, i, "noLeader"), i, "LeaderNotAvailable")
    ELSE sendRequest([n EXCEPT !.calls[i].pcL = "first"], i,
                     n.clusterMetadata.leader)

\* ------------------------------------------- the client and its environment
BrokerList(S) == SelectSeq([k \in 1 .. MaxNodes |-> k], LAMBDA y : y \in S)
\* Metadata responses: the brokers listed and the leader of the partition,
\* which is one of them, or -1 (no leader) with every broker listed.
Snapshots ==
    UNION { { [brokers |-> BrokerList(S), leader |-> l] : l \in S }
            : S \in SUBSET NodeIds }
    \cup { [brokers |-> BrokerList(NodeIds), leader |-> 0 - 1] }
SendFailures == {"Timeout"}

\* The client after connect(): a snapshot is cached and the brokers of it
\* whose dial succeeded are pooled and connected.
Bootstrapped ==
    /\ ConnectionAtRest
    /\ LibAtRest
    /\ isRefreshingMetadata = FALSE
    /\ clusterMetadata \in Snapshots
    /\ \E S \in SUBSET NodeIds :
          /\ connections = SelectSeq(clusterMetadata.brokers, LAMBDA y : y \in S)
          /\ \E seed \in BOOLEAN :
                up = [x \in 0 .. MaxNodes |->
                         IF x = 0 THEN seed
                         ELSE \E k \in DOMAIN connections : connections[k] = x]
    /\ calls = [i \in 1 .. MaxCalls |-> NoCall]

\* The configuration's default: autoRefreshMetadata is on.
InitClient ==
    /\ Bootstrapped
    /\ autoRefreshMetadata = TRUE

\* A client configured with autoRefreshMetadata: false.
InitManual ==
    /\ Bootstrapped
    /\ autoRefreshMetadata = FALSE

Free(i) ==
    /\ calls[i].kind = "none"
    /\ \A j \in 1 .. i - 1 : calls[j].kind # "none"

\* The client when a call starts: what the calls that have completed did is
\* no longer recorded.
AtCall ==
    [CurClient EXCEPT !.calls = [j \in 1 .. MaxCalls |->
        IF calls[j].outcome = "pending" THEN calls[j]
        ELSE [NoCall EXCEPT !.kind = calls[j].kind,
                            !.outcome = calls[j].outcome]]]

CallRefreshMetadata ==
    \E i \in 1 .. MaxCalls :
        /\ Free(i)
        /\ ApplyClient(refreshMetadata(
               [AtCall EXCEPT !.calls[i].kind = "refreshMetadata"], i))

CallSendRequest ==
    \E i \in 1 .. MaxCalls, nodeId \in NodeIds :
        /\ Free(i)
        /\ ApplyClient(sendRequest(
               [AtCall EXCEPT !.calls[i].kind = "sendRequest"], i, nodeId))

CallSendToPartitionLeader ==
    \E i \in 1 .. MaxCalls :
        /\ Free(i)
        /\ ApplyClient(sendToPartitionLeader(
               [AtCall EXCEPT !.calls[i].kind = "sendToPartitionLeader"], i))

\* await broker.connect() of the seed settles.
SeedConnect ==
    \E i \in 1 .. MaxCalls, ok \in BOOLEAN :
        /\ calls[i].pcR = "seedConnect"
        /\ ApplyClient(
               IF ok
               THEN [CurClient EXCEPT !.up[0] = TRUE,
                                      !.calls[i].pcR = "send",
                                      !.calls[i].broker = 0]
               ELSE connectThrows(CurClient, i))

\* The Metadata request is answered: by a snapshot, or by bytes that
\* MetadataResponse.parse rejects.
MetadataArrives ==
    \E i \in 1 .. MaxCalls :
        /\ calls[i].pcR = "send"
        /\ \/ \E snap \in Snapshots :
                 ApplyClient(metadataReceived(CurClient, i, snap))
           \/ ApplyClient(finishRefresh(CurClient, i, "Kafka"))

MetadataFails ==
    \E i \in 1 .. MaxCalls, kind \in SendFailures :
        /\ calls[i].pcR = "send"
        /\ ApplyClient(finishRefresh(CurClient, i, kind))

DialResult ==
    \E i \in 1 .. MaxCalls, ok \in BOOLEAN :
        /\ calls[i].pcR = "dial"
        /\ ApplyClient(dialed(CurClient, i, ok))

SendResolves ==
    \E i \in 1 .. MaxCalls :
        /\ calls[i].pcR = "idle"
        /\ calls[i].pcS \in {"send", "resend"}
        /\ ApplyClient(Complete(Log(CurClient, i, "resolved"), i, "ok"))

SendRejected ==
    \E i \in 1 .. MaxCalls, kind \in SendFailures :
        /\ calls[i].pcR = "idle"
        /\ calls[i].pcS \in {"send", "resend"}
        /\ ApplyClient(rejectSend(CurClient, i, kind))

\* The socket of a connection fails or is closed by the broker, while a
\* call can still see it.
ConnectionDrops ==
    \E x \in 0 .. MaxNodes :
        /\ up[x]
        /\ \E i \in 1 .. MaxCalls : calls[i].outcome = "pending"
        /\ \/ \E k \in DOMAIN connections : connections[k] = x
           \/ \E i \in 1 .. MaxCalls : calls[i].pcR = "send" /\ calls[i].broker = x
        /\ ApplyClient(dropConnection(CurClient, x))

NextClient ==
    \/ CallRefreshMetadata
    \/ CallSendRequest
    \/ CallSendToPartitionLeader
    \/ SeedConnect
    \/ MetadataArrives
    \/ MetadataFails
    \/ DialResult
    \/ SendResolves
    \/ SendRejected
    \/ ConnectionDrops

SpecClient == InitClient /\ [][NextClient]_vars

SpecManual == InitManual /\ [][NextClient]_vars

\* -------------------------------------------------------------- the codec
\* A string is the sequence of its UTF-16 code units, a Buffer the sequence
\* of its bytes; a nullable value is a record, so that null and empty differ.
Null == [isNull |-> TRUE, value |-> << >>]
Some(v) == [isNull |-> FALSE, value |-> v]
\* What a decoder returns, [value, offset], or the RangeError of a Buffer read
\* past the end.
Decoded(v, offset) == [threw |-> FALSE, value |-> v, offset |-> offset]
RangeError == [threw |-> TRUE, value |-> Null, offset |-> 0]

\* The concatenation of the sequences ss[lo] .. ss[hi].
RECURSIVE Concat(_, _, _)
Concat(ss, lo, hi) ==
    IF lo > hi THEN << >>
    ELSE IF lo = hi THEN ss[lo]
    ELSE LET mid == (lo + hi) \div 2
         IN Concat(ss, lo, mid) \o Concat(ss, mid + 1, hi)

IsHigh(u) == u \in 55296 .. 56319
IsLow(u) == u \in 56320 .. 57343
\* buffer.write(value) and Buffer.byteLength(value): the UTF-8 bytes of a
\* string; a surrogate without its partner is written as U+FFFD.
Utf8Write(s) ==
    LET OfCodePoint(cp) ==
            IF cp < 128 THEN << cp >>
            ELSE IF cp < 2048 THEN << 192 + cp \div 64, 128 + (cp % 64) >>
            ELSE IF cp < 65536
            THEN << 224 + cp \div 4096, 128 + ((cp \div 64) % 64), 128 + (cp % 64) >>
            ELSE << 240 + cp \div 262144, 128 + ((cp \div 4096) % 64),
                    128 + ((cp \div 64) % 64), 128 + (cp % 64) >>
        At(i) ==
            IF IsHigh(s[i]) /\ i < Len(s) /\ IsLow(s[i + 1])
            THEN OfCodePoint(65536 + (s[i] - 55296) * 1024 + (s[i + 1] - 56320))
            ELSE IF IsLow(s[i]) /\ i > 1 /\ IsHigh(s[i - 1]) THEN << >>
            ELSE IF IsHigh(s[i]) \/ IsLow(s[i]) THEN << 239, 191, 189 >>
            ELSE OfCodePoint(s[i])
    IN Concat([i \in 1 .. Len(s) |-> At(i)], 1, Len(s))

\* buffer.toString('utf8', start, end), start and end clamped to the buffer,
\* for bytes that are well-formed UTF-8 cut short at most at their end: a
\* character whose bytes are not all there is read as U+FFFD.
Utf8ToString(buf, start, end) ==
    LET lo == IF start > Len(buf) THEN Len(buf) ELSE start
        hi == IF end > Len(buf) THEN Len(buf) ELSE end
        More(b) == IF b < 192 THEN 0 ELSE IF b < 224 THEN 1
                   ELSE IF b < 240 THEN 2 ELSE 3
        Cont(p) == buf[p] % 64
        CodePoint(p) ==
            IF More(buf[p]) = 1 THEN (buf[p] - 192) * 64 + Cont(p + 1)
            ELSE IF More(buf[p]) = 2
            THEN (buf[p] - 224) * 4096 + Cont(p + 1) * 64 + Cont(p + 2)
            ELSE (buf[p] - 240) * 262144 + Cont(p + 1) * 4096
                 + Cont(p + 2) * 64 + Cont(p + 3)
        Units(cp) ==
            IF cp < 65536 THEN << cp >>
            ELSE << 55296 + (cp - 65536) \div 1024, 56320 + ((cp - 65536) % 1024) >>
        At(p) ==
            IF buf[p] < 128 THEN << buf[p] >>
            ELSE IF buf[p] < 192 THEN << >>
            ELSE IF p + More(buf[p]) <= hi THEN Units(CodePoint(p))
            ELSE << 65533 >>
    IN Concat([k \in 1 .. hi - lo |-> At(lo + k)], 1, hi - lo)

\* Buffer.writeInt16BE and Buffer.readInt16BE.
WriteInt16BE(n) == << (n \div 256) % 256, n % 256 >>
ReadInt16BE(buf, offset) ==
    LET b0 == buf[offset + 1]
    IN (IF b0 >= 128 THEN b0 - 256 ELSE b0) * 256 + buf[offset + 2]

\* The two loops that write encodedLength seven bits at a time.
RECURSIVE WriteVarint(_)
WriteVarint(len) ==
    IF len > 127 THEN << (len % 128) + 128 >> \o WriteVarint(len \div 128)
    ELSE << len % 128 >>

\* The do-while loop that reads a length: readUInt8 throws past the end.
RECURSIVE ReadVarint(_, _, _, _)
ReadVarint(buf, offset, shift, length) ==
    IF offset >= Len(buf) THEN RangeError
    ELSE LET byteRead == buf[offset + 1]
             l == length + (byteRead % 128) * (2 ^ shift)
         IN IF byteRead >= 128 THEN ReadVarint(buf, offset + 1, shift + 7, l)
            ELSE [threw |-> FALSE, value |-> l, offset |-> offset + 1]

\* encodeString as it would be with the string's length in place of its byte
\* length.
encodeStringUnitLength(value) ==
    IF value.isNull THEN << 255, 255 >>
    ELSE WriteInt16BE(Len(value.value)) \o Utf8Write(value.value)

encodeString(value) ==
    IF value.isNull THEN << 255, 255 >>
    ELSE LET bytes == Utf8Write(value.value)
         IN WriteInt16BE(Len(bytes)) \o bytes

decodeString(buf, offset) ==
    IF offset + 2 > Len(buf) THEN RangeError
    ELSE LET length == ReadInt16BE(buf, offset)
         IN IF length < 0 THEN Decoded(Null, offset + 2)
            ELSE Decoded(Some(Utf8ToString(buf, offset + 2, offset + 2 + length)),
                         offset + 2 + length)

encodeCompactString(value) ==
    IF value.isNull THEN << 0 >>
    ELSE LET bytes == Utf8Write(value.value)
         IN WriteVarint(Len(bytes) + 1) \o bytes

decodeCompactString(buf, offset) ==
    LET r == ReadVarint(buf, offset, 0, 0)
    IN IF r.threw THEN RangeError
       ELSE IF r.value = 0 THEN Decoded(Null, r.offset)
       ELSE Decoded(Some(Utf8ToString(buf, r.offset, r.offset + r.value - 1)),
                    r.offset + r.value - 1)

encodeBytes(value) ==
    IF value.isNull THEN << 255, 255, 255, 255 >>
    ELSE WriteInt32BE(Len(value.value)) \o value.value

decodeBytes(buf, offset) ==
    IF offset + 4 > Len(buf) THEN RangeError
    ELSE LET length == ReadInt32BE(buf, offset)
         IN IF length < 0 THEN Decoded(Null, offset + 4)
            ELSE Decoded(Some(Slice(buf, offset + 4, offset + 4 + length)),
                         offset + 4 + length)

encodeCompactBytes(value) ==
    IF value.isNull THEN << 0 >>
    ELSE WriteVarint(Len(value.value) + 1) \o value.value

decodeCompactBytes(buf, offset) ==
    LET r == ReadVarint(buf, offset, 0, 0)
    IN IF r.threw THEN RangeError
       ELSE IF r.value = 0 THEN Decoded(Null, r.offset)
       ELSE Decoded(Some(Slice(buf, r.offset, r.offset + r.value - 1)),
                    r.offset + r.value - 1)

\* The encodeFunc and decodeFunc an array is encoded and decoded with: of
\* int16 elements, or of nullable strings.
encodeFunc(elem, value) ==
    IF elem = "int16" THEN WriteInt16BE(value) ELSE encodeString(value)
decodeFunc(elem, buf, offset) ==
    IF elem = "int16"
    THEN IF offset + 2 > Len(buf) THEN RangeError
         ELSE Decoded(ReadInt16BE(buf, offset), offset + 2)
    ELSE decodeString(buf, offset)

\* The for loop of decodeArray and decodeCompactArray: length elements are
\* decoded one after the other from offset on.
RECURSIVE DecodeElements(_, _, _, _)
DecodeElements(elem, buf, offset, length) ==
    IF length = 0 THEN Decoded(<< >>, offset)
    ELSE IF length = 1
    THEN LET r == decodeFunc(elem, buf, offset)
         IN IF r.threw THEN RangeError ELSE Decoded(<< r.value >>, r.offset)
    ELSE LET a == DecodeElements(elem, buf, offset, length \div 2)
         IN IF a.threw THEN RangeError
            ELSE LET b == DecodeElements(elem, buf, a.offset,
                                         length - length \div 2)
                 IN IF b.threw THEN RangeError
                    ELSE Decoded(a.value \o b.value, b.offset)

EncodeElements(elem, values) ==
    Concat([i \in 1 .. Len(values) |-> encodeFunc(elem, values[i])],
           1, Len(values))

encodeArray(elem, values) ==
    IF values.isNull THEN << 255, 255, 255, 255 >>
    ELSE WriteInt32BE(Len(values.value)) \o EncodeElements(elem, values.value)

decodeArray(elem, buf, offset) ==
    IF offset + 4 > Len(buf) THEN RangeError
    ELSE LET length == ReadInt32BE(buf, offset)
         IN IF length < 0 THEN Decoded(Null, offset + 4)
            ELSE LET r == DecodeElements(elem, buf, offset + 4, length)
                 IN IF r.threw THEN RangeError
                    ELSE Decoded(Some(r.value), r.offset)

encodeCompactArray(elem, values) ==
    IF values.isNull THEN << 0 >>
    ELSE WriteVarint(Len(values.value) + 1) \o EncodeElements(elem, values.value)

decodeCompactArray(elem, buf, offset) ==
    LET l == ReadVarint(buf, offset, 0, 0)
    IN IF l.threw THEN RangeError
       ELSE IF l.value = 0 THEN Decoded(Null, l.offset)
       ELSE LET r == DecodeElements(elem, buf, l.offset, l.value - 1)
            IN IF r.threw THEN RangeError
               ELSE Decoded(Some(r.value), r.offset)

\* The form a value is encoded in, and the functions of that form.
encode(form, elem, value) ==
    CASE form = "string" -> encodeString(value)
      [] form = "compactString" -> encodeCompactString(value)
      [] form = "bytes" -> encodeBytes(value)
      [] form = "compactBytes" -> encodeCompactBytes(value)
      [] form = "array" -> encodeArray(elem, value)
      [] form = "compactArray" -> encodeCompactArray(elem, value)

decode(form, elem, buf, offset) ==
    CASE form = "string" -> decodeString(buf, offset)
      [] form = "compactString" -> decodeCompactString(buf, offset)
      [] form = "bytes" -> decodeBytes(buf, offset)
      [] form = "compactBytes" -> decodeCompactBytes(buf, offset)
      [] form = "array" -> decodeArray(elem, buf, offset)
      [] form = "compactArray" -> decodeCompactArray(elem, buf, offset)

\* The values encoded: every sequence of up to MaxStringLen items, and a run
\* of one item at each length where the compact length grows by a byte. The
\* code units are "a", e-acute, the euro sign and the surrogates of U+1F600.
CodecInputs ==
    LET BoundaryLengths == {126, 127, 128, 16383, 16384}
        UpTo(S) == UNION { [1 .. n -> S] : n \in 0 .. MaxStringLen }
        Runs(x) == { [i \in 1 .. n |-> x] : n \in BoundaryLengths }
        Nullable(S) == {Null} \cup { Some(v) : v \in S }
        CodeUnits == {97, 233, 8364, 55357, 56832}
    IN [form : {"string", "compactString"}, elem : {"none"},
        value : Nullable(UpTo(CodeUnits) \cup Runs(97))]
       \cup [form : {"bytes", "compactBytes"}, elem : {"none"},
             value : Nullable(UpTo({0, 255}) \cup Runs(0))]
       \cup [form : {"array", "compactArray"}, elem : {"int16"},
             value : Nullable(UpTo({0 - 1, 258}) \cup Runs(258))]
       \cup [form : {"array", "compactArray"}, elem : {"string"},
             value : Nullable(UpTo(Nullable({<< >>, << 97 >>, << 8364 >>})))]

InitCodec ==
    /\ ConnectionAtRest
    /\ IdleClient
    /\ cluster = NewClusterMetadata
    /\ versions = NewVersions
    /\ life = NewNetworkClient
    /\ peel = [pc |-> "none"]
    /\ wire = [pc |-> "none"]
    /\ \E input \in CodecInputs :
          codec = [pc |-> "value", form |-> input.form, elem |-> input.elem,
                   value |-> input.value, buffer |-> << >>, cut |-> 0,
                   result |-> RangeError]

EncodeValue ==
    /\ codec.pc = "value"
    /\ codec' = [codec EXCEPT !.pc = "encoded",
                              !.buffer = encode(codec.form, codec.elem, codec.value)]
    /\ UNCHANGED << connVars, now, feedVars, clientVars, cluster, versions, life,
                    peel, wire >>

\* The last bytes of the encoding are missing from the buffer.
CutShort ==
    /\ codec.pc = "encoded"
    /\ \E k \in 1 .. MaxCut :
          /\ k <= Len(codec.buffer)
          /\ codec' = [codec EXCEPT !.pc = "cut", !.cut = k,
                          !.buffer = SubSeq(@, 1, Len(@) - k)]
    /\ UNCHANGED << connVars, now, feedVars, clientVars, cluster, versions, life,
                    peel, wire >>

DecodeBuffer ==
    /\ codec.pc \in {"encoded", "cut"}
    /\ codec' = [codec EXCEPT !.pc = "decoded",
                              !.result = decode(codec.form, codec.elem, codec.buffer, 0)]
    /\ UNCHANGED << connVars, now, feedVars, clientVars, cluster, versions, life,
                    peel, wire >>

NextCodec == EncodeValue \/ CutShort \/ DecodeBuffer

SpecCodec == InitCodec /\ [][NextCodec]_vars

\* ------------------------------------------------------ the ClusterMetadata
\* Array.prototype.sort() without a comparator: the order of the elements'
\* decimal strings.
DefaultSort(a) ==
    LET RECURSIVE Digits(_)
        Digits(n) == IF n < 10 THEN << n >> ELSE Append(Digits(n \div 10), n % 10)
        RECURSIVE Before(_, _)
        Before(x, y) ==
            IF x = << >> THEN y # << >>
            ELSE IF y = << >> THEN FALSE
            ELSE IF Head(x) # Head(y) THEN Head(x) < Head(y)
            ELSE Before(Tail(x), Tail(y))
        Less(x, y) == Before(Digits(x), Digits(y))
    IN SortSeq(a, Less)

hasArrayChangedOrdered(a, b) ==
    \/ Len(a) # Len(b)
    \/ \E i \in DOMAIN a : a[i] # b[i]

hasArrayChanged(a, b) ==
    \/ Len(a) # Len(b)
    \/ LET sortedA == DefaultSort(a)
           sortedB == DefaultSort(b)
       IN \E i \in DOMAIN sortedA : sortedA[i] # sortedB[i]

hasPartitionChanges(existing, updated) ==
    \/ Len(existing) # Len(updated)
    \/ \E k \in DOMAIN updated :
          LET partition == updated[k]
              \* existingMap.get: the last entry set for the index
              at == {j \in DOMAIN existing :
                        existing[j].partitionIndex = partition.partitionIndex}
          IN \/ at = {}
             \/ LET existingPartition ==
                        existing[CHOOSE j \in at : \A x \in at : x <= j]
                IN \/ existingPartition.leaderId # partition.leaderId
                   \/ existingPartition.leaderEpoch # partition.leaderEpoch
                   \/ hasArrayChanged(existingPartition.replicaNodes,
                                      partition.replicaNodes)
                   \/ hasArrayChanged(existingPartition.isrNodes,
                                      partition.isrNodes)
                   \/ hasArrayChanged(existingPartition.offlineReplicas,
                                      partition.offlineReplicas)

\* Map.set on a map held as a function.
MapPut(m, key, value) ==
    [x \in DOMAIN m \cup {key} |-> IF x = key THEN value ELSE m[x]]

\* The loop of updateMetadata over the topics from k on: the topics map and
\* updatedTopics after it.
RECURSIVE UpdateTopics(_, _, _)
UpdateTopics(acc, topics, k) ==
    IF k > Len(topics) THEN acc
    ELSE LET topic == topics[k]
             known == topic.name \in DOMAIN acc.topics
             changed ==
                 \/ ~known
                 \/ hasPartitionChanges(acc.topics[topic.name].partitions,
                                        topic.partitions)
         IN IF topic.errorCode # 0 THEN UpdateTopics(acc, topics, k + 1)
            ELSE UpdateTopics(
                     [topics |-> MapPut(acc.topics, topic.name, topic),
                      updatedTopics |->
                          IF changed THEN Append(acc.updatedTopics, topic.name)
                          ELSE acc.updatedTopics],
                     topics, k + 1)

RECURSIVE SetBrokers(_, _, _)
SetBrokers(map, brokers, k) ==
    IF k > Len(brokers) THEN map
    ELSE SetBrokers(MapPut(map, brokers[k].nodeId, brokers[k]), brokers, k + 1)

\* this.emit('update', updatedTopics), and the listener the NetworkClient's
\* constructor registers for it.
EmitUpdate(m, updatedTopics) ==
    [m EXCEPT !.emits = Append(@, updatedTopics),
              !.metadataUpdates = Append(@, updatedTopics)]

\* updateMetadata as it would be if the broker map were not cleared.
updateMetadataKeepsBrokers(m, brokers, topics, clusterId, controllerId) ==
    LET r == UpdateTopics([topics |-> m.topics, updatedTopics |-> << >>],
                          topics, 1)
        wasInitialized == m.isMetadataInitialized
        m1 == [m EXCEPT !.brokers = SetBrokers(m.brokers, brokers, 1),
                        !.topics = r.topics,
                        !.clusterId = clusterId,
                        !.controllerId = controllerId,
                        !.isMetadataInitialized = TRUE,
                        !.updatedTopics = r.updatedTopics]
    IN IF r.updatedTopics # << >> \/ ~wasInitialized
       THEN EmitUpdate(m1, r.updatedTopics)
       ELSE m1

\* updateMetadata as it would be if only a changed topic made it emit.
updateMetadataNoFirstSignal(m, brokers, topics, clusterId, controllerId) ==
    LET r == UpdateTopics([topics |-> m.topics, updatedTopics |-> << >>],
                          topics, 1)
        m1 == [m EXCEPT !.brokers = SetBrokers(<< >>, brokers, 1),
                        !.topics = r.topics,
                        !.clusterId = clusterId,
                        !.controllerId = controllerId,
                        !.isMetadataInitialized = TRUE,
                        !.updatedTopics = r.updatedTopics]
    IN IF r.updatedTopics # << >>
       THEN EmitUpdate(m1, r.updatedTopics)
       ELSE m1

updateMetadata(m, brokers, topics, clusterId, controllerId) ==
    LET r == UpdateTopics([topics |-> m.topics, updatedTopics |-> << >>],
                          topics, 1)
        wasInitialized == m.isMetadataInitialized
        m1 == [m EXCEPT !.brokers = SetBrokers(<< >>, brokers, 1),
                        !.topics = r.topics,
                        !.clusterId = clusterId,
                        !.controllerId = controllerId,
                        !.isMetadataInitialized = TRUE,
                        !.updatedTopics = r.updatedTopics]
    IN IF r.updatedTopics # << >> \/ ~wasInitialized
       THEN EmitUpdate(m1, r.updatedTopics)
       ELSE m1

\* findLeader: the leader id, or the error thrown, by its class name and what
\* its message says is missing.
findLeader(m, topic, partition) ==
    IF topic \notin DOMAIN m.topics
    THEN [threw |-> TRUE, name |-> "KafkaError", message |-> "Topic not found",
          leaderId |-> 0]
    ELSE LET ps == m.topics[topic].partitions
             at == {j \in DOMAIN ps : ps[j].partitionIndex = partition}
         IN IF at = {}
            THEN [threw |-> TRUE, name |-> "KafkaError",
                  message |-> "Partition not found", leaderId |-> 0]
            ELSE LET partitionMetadata ==
                         ps[CHOOSE j \in at : \A x \in at : j <= x]
                 IN IF partitionMetadata.leaderId < 0
                    THEN [threw |-> TRUE, name |-> "LeaderNotAvailableError",
                          message |-> "No leader", leaderId |-> 0]
                    ELSE [threw |-> FALSE, name |-> "none", message |-> "none",
                          leaderId |-> partitionMetadata.leaderId]

\* What the calls of the cache are given: two brokers, one of them under two
\* addresses; one partition in the variants that differ from the first in
\* one field each (node 10 sorts before node 2 as a string), a second
\* partition; the topics of a response have distinct names.
MetadataInputs ==
    LET Broker(id, host) == [nodeId |-> id, host |-> host, port |-> 9092]
        Partition(index, leader, epoch, replicas, isr, offline) ==
            [partitionIndex |-> index, leaderId |-> leader,
             leaderEpoch |-> epoch, replicaNodes |-> replicas,
             isrNodes |-> isr, offlineReplicas |-> offline]
        First == Partition(0, 1, 0, << 2, 10 >>, << 1, 2 >>, << >>)
        Second == Partition(1, 2, 0, << 2, 10 >>, << 1, 2 >>, << >>)
        PartitionLists ==
            { << >>, << First >>, << Second >>, << First, Second >>,
              << [First EXCEPT !.leaderId = 2] >>,
              << [First EXCEPT !.leaderId = 0 - 1] >>,
              << [First EXCEPT !.leaderEpoch = 1] >>,
              << [First EXCEPT !.replicaNodes = << 10, 2 >>] >>,
              << [First EXCEPT !.replicaNodes = << 1, 10 >>] >>,
              << [First EXCEPT !.isrNodes = << 2, 1 >>] >>,
              << [First EXCEPT !.isrNodes = << 1 >>] >>,
              << [First EXCEPT !.offlineReplicas = << 2 >>] >> }
        Topic(name, errorCode, partitions) ==
            [name |-> name, errorCode |-> errorCode, partitions |-> partitions]
        Named(name) ==
            {Topic(name, e, ps) : e \in {0, 3}, ps \in PartitionLists}
        Others == {Topic("t2", e, << First >>) : e \in {0, 3}}
        TopicLists ==
            {<< >>} \cup {<< t >> : t \in Named("t1")}
               \cup {<< t, o >> : t \in {Topic("t1", e, << First >>) : e \in {0, 3}},
                                  o \in Others}
               \cup {<< o >> : o \in Others}
        BrokerLists ==
            { << >>, << Broker(1, "a") >>,
              << Broker(2, "b"), Broker(1, "c") >> }
    IN [brokers : BrokerLists, topics : TopicLists,
        clusterId : {"c"}, controllerId : {1}]

LeaderQueries == [topic : {"t1", "t2", "t3"}, partition : 0 .. 1]

InitMetadata ==
    /\ ConnectionAtRest
    /\ IdleClient
    /\ codec = [pc |-> "none"]
    /\ cluster = NewClusterMetadata
    /\ versions = NewVersions
    /\ life = NewNetworkClient
    /\ peel = [pc |-> "none"]
    /\ wire = [pc |-> "none"]

\* A call of updateMetadata.
UpdateMetadata ==
    /\ cluster.updates < MaxUpdates
    /\ \E input \in MetadataInputs :
          cluster' =
              [updateMetadata(cluster, input.brokers, input.topics,
                              input.clusterId, input.controllerId)
                  EXCEPT !.updates = @ + 1, !.lastOp = "updateMetadata",
                         !.call = << input >>, !.found = << >>,
                         !.before = << cluster.topics >>]
    /\ UNCHANGED << connVars, now, feedVars, clientVars, codec, versions, life,
                    peel, wire >>

\* A call of findLeader.
FindLeader ==
    /\ cluster.lastOp = "updateMetadata"
    /\ \E query \in LeaderQueries :
          cluster' =
              [cluster EXCEPT
                  !.lastOp = "findLeader", !.call = << query >>,
                  !.found = << findLeader(cluster, query.topic, query.partition) >>]
    /\ UNCHANGED << connVars, now, feedVars, clientVars, codec, versions, life,
                    peel, wire >>

NextMetadata ==
    \/ UpdateMetadata
    \/ FindLeader

SpecMetadata == InitMetadata /\ [][NextMetadata]_vars

\* ------------------------------------------------------- the API versions
\* What an ApiVersions exchange gives fetchApiVersions: the send fails, or a
\* response with an error code and ranges arrives. The ranges a broker
\* reports have minVersion <= maxVersion.
VersionRanges ==
    {r \in [apiKey : {METADATA, API_VERSIONS}, minVersion : 0 .. MaxVersion,
            maxVersion : 0 .. MaxVersion] : r.minVersion <= r.maxVersion}

RangeLists ==
    {<< >>} \cup {<< r >> : r \in VersionRanges}
       \cup {<< r, q >> : r \in VersionRanges, q \in VersionRanges}

VersionExchanges ==
    {[sent |-> FALSE, errorCode |-> 0, apiVersions |-> << >>]}
       \cup [sent : {TRUE}, errorCode : {0, 35}, apiVersions : RangeLists]

\* The loop of Map.set over the ranges from k on.
RECURSIVE SetRanges(_, _, _)
SetRanges(map, ranges, k) ==
    IF k > Len(ranges) THEN map
    ELSE SetRanges(MapPut(map, ranges[k].apiKey, ranges[k]), ranges, k + 1)

\* fetchApiVersions as it would be if the table were not cleared.
fetchApiVersionsMerging(v, exchange) ==
    IF ~exchange.sent THEN [v EXCEPT !.threw = TRUE]
    ELSE IF exchange.errorCode # 0 THEN [v EXCEPT !.threw = TRUE]
    ELSE [v EXCEPT !.threw = FALSE,
                   !.apiVersions = SetRanges(v.apiVersions, exchange.apiVersions, 1)]

\* NetworkClient.fetchApiVersions on the record of the version tables.
fetchApiVersions(v, exchange) ==
    IF ~exchange.sent THEN [v EXCEPT !.threw = TRUE]
    ELSE IF exchange.errorCode # 0 THEN [v EXCEPT !.threw = TRUE]
    ELSE [v EXCEPT !.threw = FALSE,
                   !.apiVersions = SetRanges(<< >>, exchange.apiVersions, 1)]

getApiVersion(v, apiKey) ==
    IF apiKey \notin DOMAIN v.apiVersions
    THEN [minVersion |-> 0, maxVersion |-> 0]
    ELSE [minVersion |-> v.apiVersions[apiKey].minVersion,
          maxVersion |-> v.apiVersions[apiKey].maxVersion]

\* ApiVersions.update, getVersionRange and selectVersion of the protocol
\* layer, on its own table versionRanges.
update(v, versionRanges) ==
    [v EXCEPT !.versionRanges = SetRanges(v.versionRanges, versionRanges, 1)]

getVersionRange(v, apiKey) ==
    IF apiKey \notin DOMAIN v.versionRanges
    THEN [apiKey |-> apiKey, minVersion |-> v.defaultMinVersion,
          maxVersion |-> v.defaultMaxVersion]
    ELSE v.versionRanges[apiKey]

selectVersion(v, apiKey, preferredVersion, fallbackVersion) ==
    LET range == getVersionRange(v, apiKey)
        Supported(version) ==
            /\ ~version.isNull
            /\ version.value >= range.minVersion
            /\ version.value <= range.maxVersion
    IN IF Supported(preferredVersion) THEN preferredVersion.value
       ELSE IF Supported(fallbackVersion) THEN fallbackVersion.value
       ELSE range.maxVersion

InitVersions ==
    /\ ConnectionAtRest
    /\ IdleClient
    /\ codec = [pc |-> "none"]
    /\ cluster = NewClusterMetadata
    /\ versions = NewVersions
    /\ life = NewNetworkClient
    /\ peel = [pc |-> "none"]
    /\ wire = [pc |-> "none"]

\* connect() negotiates: fetchApiVersions runs on the outcome of an exchange.
FetchApiVersions ==
    /\ versions.calls < MaxVersionCalls
    /\ \E exchange \in VersionExchanges :
          versions' =
              [fetchApiVersions(versions, exchange)
                  EXCEPT !.calls = @ + 1, !.lastOp = "fetchApiVersions",
                         !.call = << exchange >>,
                         !.lastOk = IF exchange.sent /\ exchange.errorCode = 0
                                    THEN exchange.apiVersions ELSE @]
    /\ UNCHANGED << connVars, now, feedVars, clientVars, codec, cluster, life,
                    peel, wire >>

UpdateRanges ==
    /\ versions.calls < MaxVersionCalls
    /\ \E ranges \in RangeLists :
          versions' = [update(versions, ranges)
                          EXCEPT !.calls = @ + 1, !.lastOp = "update",
                                 !.call = << ranges >>]
    /\ UNCHANGED << connVars, now, feedVars, clientVars, codec, cluster, life,
                    peel, wire >>

GetApiVersion ==
    /\ versions.lastOp \in {"fetchApiVersions", "update"}
    /\ \E apiKey \in {PRODUCE, METADATA, API_VERSIONS} :
          versions' = [versions EXCEPT
                          !.lastOp = "getApiVersion", !.call = << apiKey >>,
                          !.result = << getApiVersion(versions, apiKey) >>]
    /\ UNCHANGED << connVars, now, feedVars, clientVars, codec, cluster, life,
                    peel, wire >>

SelectVersion ==
    /\ versions.lastOp \in {"fetchApiVersions", "update"}
    /\ \E apiKey \in {PRODUCE, METADATA, API_VERSIONS},
          preferredVersion \in {Null} \cup {Some(x) : x \in 0 .. MaxVersion + 1},
          fallbackVersion \in {Null} \cup {Some(x) : x \in 0 .. MaxVersion + 1} :
          versions' = [versions EXCEPT
                          !.lastOp = "selectVersion",
                          !.call = << [apiKey |-> apiKey,
                                       preferredVersion |-> preferredVersion,
                                       fallbackVersion |-> fallbackVersion] >>,
                          !.result = << selectVersion(versions, apiKey,
                                                      preferredVersion,
                                                      fallbackVersion) >>]
    /\ UNCHANGED << connVars, now, feedVars, clientVars, codec, cluster, life,
                    peel, wire >>

NextVersions ==
    \/ FetchApiVersions
    \/ UpdateRanges
    \/ GetApiVersion
    \/ SelectVersion

SpecVersions == InitVersions /\ [][NextVersions]_vars

\* ------------------------------------------- the NetworkClient's lifecycle
\* connect(), close(), the refresh timer and the refreshes they run, over
\* connections that are known by their state, their socket field, the
\* connection attempt of their socket and the waiters of their connect():
\* the seeds are the connections 1 .. MaxSeeds, ConnOf(x) that of node x.
Note(l, e, at, by) ==
    [l EXCEPT !.log = Append(@, [e |-> e, at |-> at, by |-> by])]

lifeIsConnected(l, c) == l.conn[c].state = CONNECTED /\ l.conn[c].socket

startMetadataRefreshTimer(l) ==
    Note([l EXCEPT !.timer = [set |-> TRUE, pending |-> TRUE]], "timer", 0, "client")

\* connect() ends: it returns, or its catch emits 'error' and rethrows.
connectEnds(l, outcome) ==
    [l EXCEPT !.connectCall.pc = "done", !.connectCall.outcome = outcome]

\* connect() after await this.refreshMetadata(null, connectedBroker).
connectAfterRefresh(l, res) ==
    IF res = "ok"
    THEN connectEnds(Note([startMetadataRefreshTimer(l)
                              EXCEPT !.isInitialized = TRUE], "ready", 0, "client"),
                     "ok")
    ELSE connectEnds(l, res)

\* What follows a refreshMetadata call of owner that ended with res.
afterRefresh(l, owner, res) ==
    IF owner = "connect" THEN connectAfterRefresh(l, res)
    ELSE IF owner = "timer" THEN startMetadataRefreshTimer(l)
    ELSE Note(l, res, 0, "user")

\* The catch and finally blocks of refreshMetadata.
refreshEnds(l, res) ==
    afterRefresh([l EXCEPT !.isRefreshingMetadata = FALSE,
                           !.refresh = [pc |-> "idle", owner |-> "none",
                                        broker |-> 0, todo |-> << >>,
                                        keep |-> {}]],
                 l.refresh.owner, res)

\* broker.send(ApiKeys.METADATA, ...) of the running refresh on connection c.
sendMetadata(l, c) ==
    IF lifeIsConnected(l, c)
    THEN Note([l EXCEPT !.refresh.pc = "send", !.refresh.broker = c],
              "Metadata", c, l.refresh.owner)
    ELSE refreshEnds(l, "Disconnected")

RECURSIVE brokerConnect(_, _, _)
RECURSIVE reconcile(_)
RECURSIVE connected(_, _, _)

\* BrokerConnection.disconnect() on connection c: the requests in flight on
\* it are rejected, and the socket, with its handlers, is left to end.
brokerDisconnect(l, c) ==
    IF l.conn[c].state = DISCONNECTED THEN l
    ELSE LET l1 == [l EXCEPT !.conn[c].state = DISCONNECTED,
                             !.conn[c].socket = FALSE]
             l2 == IF l1.connectCall.pc = "apiVersions" /\ l1.connectCall.broker = c
                   THEN connectEnds(l1, "Disconnected")
                   ELSE l1
         IN IF l2.refresh.pc = "send" /\ l2.refresh.broker = c
            THEN refreshEnds(l2, "Disconnected")
            ELSE l2

RECURSIVE disconnectAll(_, _)
disconnectAll(l, cs) ==
    IF cs = << >> THEN l
    ELSE disconnectAll(brokerDisconnect(l, Head(cs)), Tail(cs))

\* refreshMetadata(topics, specificBroker) called by owner; specificBroker 0
\* is none.
lifeRefreshMetadata(l, owner, specificBroker) ==
    IF l.isRefreshingMetadata THEN afterRefresh(l, owner, "ok")
    ELSE LET l1 == [l EXCEPT !.isRefreshingMetadata = TRUE,
                             !.refresh.owner = owner]
         IN IF specificBroker # 0 THEN sendMetadata(l1, specificBroker)
            ELSE IF l1.connections # << >>
            THEN sendMetadata(l1, ConnOf(Head(l1.connections)))
            ELSE IF l1.seedBrokers # << >>
            THEN brokerConnect([l1 EXCEPT !.refresh.pc = "seedConnect",
                                          !.refresh.broker = Head(l1.seedBrokers)],
                               "refresh", Head(l1.seedBrokers))
            ELSE refreshEnds(l1, "NoBrokers")

\* The loop over the seeds in connect(), from the seed after the last one
\* tried; the loop runs over the array that seedBrokers was when it began.
connectNext(l) ==
    LET at == l.connectCall.at + 1
    IN IF at > Len(l.connectCall.seeds)
       THEN connectEnds(l, "aggregate")
       ELSE brokerConnect([l EXCEPT !.connectCall.pc = "dial",
                                    !.connectCall.at = at],
                          "connect", l.connectCall.seeds[at])

\* updateBrokerConnections from the head of todo on.
reconcile(l) ==
    IF l.refresh.todo = << >>
    THEN LET gone == SelectSeq(l.connections, LAMBDA y : y \notin l.refresh.keep)
             l1 == disconnectAll(l, [k \in DOMAIN gone |-> ConnOf(gone[k])])
         IN refreshEnds([l1 EXCEPT !.connections =
                                       SelectSeq(@, LAMBDA y : y \in l.refresh.keep)],
                        "ok")
    ELSE LET x == Head(l.refresh.todo)
         IN IF \E k \in DOMAIN l.connections : l.connections[k] = x
            THEN reconcile([l EXCEPT !.refresh.todo = Tail(@)])
            ELSE brokerConnect([l EXCEPT !.refresh.pc = "dial",
                                         !.refresh.broker = ConnOf(x),
                                         !.conn[ConnOf(x)] = NewConn],
                               "refresh", ConnOf(x))

\* The code after await broker.connect() of who has resolved on connection c.
connected(l, who, c) ==
    IF who = "connect"
    THEN IF lifeIsConnected(l, c)
         THEN Note([l EXCEPT !.connectCall.pc = "apiVersions",
                             !.connectCall.broker = c],
                   "ApiVersions", c, "connect")
         ELSE connectEnds([l EXCEPT !.connectCall.broker = c], "Disconnected")
    ELSE IF l.refresh.pc = "seedConnect" THEN sendMetadata(l, c)
    ELSE reconcile(Note([l EXCEPT !.connections = Append(@, c - MaxSeeds),
                                  !.refresh.todo = Tail(@)],
                        "pooled", c, l.refresh.owner))

\* The code after await broker.connect() of who was rejected.
rejected(l, who, c) ==
    IF who = "connect"
    THEN connectNext([l EXCEPT !.connectCall.errors = @ + 1])
    ELSE IF l.refresh.pc = "seedConnect" THEN refreshEnds(l, "ConnectError")
    ELSE reconcile([l EXCEPT !.refresh.todo = Tail(@)])

\* BrokerConnection.connect() called by who on connection c.
brokerConnect(l, who, c) ==
    IF l.conn[c].state = CONNECTED THEN connected(l, who, c)
    ELSE IF l.conn[c].state = CONNECTING
    THEN Note([l EXCEPT !.conn[c].joined = @ \cup {who},
                        !.conn[c].onceError = @ + 1],
              "join", c, who)
    ELSE Note([l EXCEPT !.conn[c].state = CONNECTING,
                        !.conn[c].socket = TRUE,
                        !.conn[c].attempt = TRUE,
                        !.conn[c].dialer = who],
              "dial", c, who)

\* The waiters of connect() on c resume with f, the joined ones first.
Resume(l, c, f(_, _, _)) ==
    LET l0 == [l EXCEPT !.conn[c].joined = {}, !.conn[c].dialer = "none"]
        l1 == IF "connect" \in l.conn[c].joined THEN f(l0, "connect", c) ELSE l0
        l2 == IF "refresh" \in l.conn[c].joined THEN f(l1, "refresh", c) ELSE l1
    IN IF l.conn[c].dialer = "none" THEN l2 ELSE f(l2, l.conn[c].dialer, c)

\* The 'connect' handler of the socket of c: also the socket of an attempt
\* that disconnect() has left behind.
socketConnects(l, c) ==
    Resume(Note([l EXCEPT !.conn[c].state = CONNECTED,
                          !.conn[c].attempt = FALSE], "connected", c, "socket"),
           c, connected)

\* The 'error' handler of the socket of c, or its connection timeout:
\* onError, then reject. emit('error') throws when c has no listener, the
\* once('error') listeners of joined callers being listeners.
socketFails(l, c) ==
    LET l1 == Note([l EXCEPT !.conn[c].attempt = FALSE], "dialFailed", c, "socket")
    IN IF l1.conn[c].onceError = 0
       THEN Note(l1, "uncaught", c, "socket")
       ELSE Resume(brokerDisconnect([l1 EXCEPT !.conn[c].onceError = 0], c),
                   c, rejected)

\* connect() of the NetworkClient.
clientConnect(l) ==
    IF l.isInitialized THEN connectEnds(l, "ok")
    ELSE IF l.isClosed THEN connectEnds(l, "closed")
    ELSE connectNext([l EXCEPT !.connectCall.seeds = l.seedBrokers,
                               !.connectCall.at = 0])

\* close() of the NetworkClient.
clientClose(l) ==
    IF l.isClosed THEN l
    ELSE LET l1 == [l EXCEPT !.isClosed = TRUE,
                             !.timer = IF @.set
                                       THEN [set |-> FALSE, pending |-> FALSE]
                                       ELSE @]
             l2 == disconnectAll(l1, l1.seedBrokers)
             l3 == disconnectAll(l2, [k \in DOMAIN l2.connections |->
                                         ConnOf(l2.connections[k])])
         IN Note([l3 EXCEPT !.connections = << >>, !.seedBrokers = << >>,
                            !.closed = TRUE],
                 "close", 0, "client")

InitLifecycle ==
    /\ ConnectionAtRest
    /\ IdleClient
    /\ codec = [pc |-> "none"]
    /\ cluster = NewClusterMetadata
    /\ versions = NewVersions
    /\ life = NewNetworkClient
    /\ peel = [pc |-> "none"]
    /\ wire = [pc |-> "none"]

LifeStep(l) ==
    /\ life' = l
    /\ UNCHANGED << connVars, now, feedVars, clientVars, codec, cluster, versions,
                    peel, wire >>

\* The application calls connect(), once.
CallConnect ==
    /\ life.connectCall.pc = "idle"
    /\ LifeStep(clientConnect(life))

\* The application calls close().
CallClose ==
    /\ ~life.isClosed
    /\ LifeStep(clientClose(life))

\* The application calls refreshMetadata().
CallRefresh ==
    /\ life.userCalls < MaxUserRefreshes
    /\ LifeStep(lifeRefreshMetadata([life EXCEPT !.userCalls = @ + 1], "user", 0))

\* The callback of the refresh timer.
TimerFires ==
    /\ life.timer.pending
    /\ life.fires < MaxTimerFires
    /\ LifeStep(lifeRefreshMetadata([life EXCEPT !.timer.pending = FALSE,
                                                 !.fires = @ + 1],
                                    "timer", 0))

SocketConnects ==
    \E c \in ConnIds :
        /\ life.conn[c].attempt
        /\ LifeStep(socketConnects(life, c))

SocketFails ==
    \E c \in ConnIds :
        /\ life.conn[c].attempt
        /\ LifeStep(socketFails(life, c))

\* The ApiVersions request of connect() is answered without or with an
\* error code, or times out.
ApiVersionsAnswered ==
    /\ life.connectCall.pc = "apiVersions"
    /\ \E res \in {"ok", "Kafka", "Timeout"} :
          LifeStep(IF res = "ok"
                   THEN lifeRefreshMetadata(
                            [life EXCEPT !.connectCall.pc = "metadata"],
                            "connect", life.connectCall.broker)
                   ELSE connectEnds(life, res))

\* The Metadata request of the running refresh is answered by a list of
\* brokers, or times out.
MetadataAnswered ==
    /\ life.refresh.pc = "send"
    /\ \/ \E S \in SUBSET NodeIds :
             LifeStep(reconcile([life EXCEPT
                          !.refresh.todo = BrokerList(S),
                          !.refresh.keep = S]))
       \/ LifeStep(refreshEnds(life, "Timeout"))

NextLifecycle ==
    \/ CallConnect
    \/ CallClose
    \/ CallRefresh
    \/ TimerFires
    \/ SocketConnects
    \/ SocketFails
    \/ ApiVersionsAnswered
    \/ MetadataAnswered

SpecLifecycle == InitLifecycle /\ [][NextLifecycle]_vars

\* ------------------------------------------------- the bytes that are sent
\* RequestHeader.encode: an empty clientId is written as the null string.
RequestHeaderEncode(apiKey, apiVersion, correlationId, clientId) ==
    LET clientIdLength == IF clientId # << >> THEN Len(Utf8Write(clientId))
                          ELSE 0 - 1
    IN WriteInt16BE(apiKey) \o WriteInt16BE(apiVersion)
       \o WriteInt32BE(correlationId)
       \o (IF clientId # << >>
           THEN WriteInt16BE(clientIdLength) \o Utf8Write(clientId)
           ELSE WriteInt16BE(0 - 1))

\* The request buffer of send() as it would be if the size field counted
\* itself.
requestBufferCountsSizeField(headerBuffer, requestData) ==
    LET totalSize == SizeFieldLen + Len(headerBuffer) + Len(requestData)
    IN WriteInt32BE(totalSize) \o headerBuffer \o requestData

\* The request buffer of send(): size, header, payload.
requestBuffer(headerBuffer, requestData) ==
    LET totalSize == SizeFieldLen + Len(headerBuffer) + Len(requestData)
    IN WriteInt32BE(totalSize - SizeFieldLen) \o headerBuffer \o requestData

\* send(apiKey, apiVersion, requestData) with what socket.write is given:
\* w.c are the fields, w.written the bytes written to the socket so far and
\* w.calls the calls made.
sendBytes(w, apiKey, apiVersion, requestData) ==
    LET correlationId == nextCorrelationId(w.c).correlationIdCounter
        headerBuffer == RequestHeaderEncode(apiKey, apiVersion, correlationId,
                                            w.clientId)
        totalSize == SizeFieldLen + Len(headerBuffer) + Len(requestData)
        large == totalSize > MaxRequestSizeCfg
        goesOut == isConnected(w.c) /\ ~large
    IN [w EXCEPT
          !.c = send(w.c, 0, large, 0),
          !.written = IF goesOut
                      THEN @ \o requestBuffer(headerBuffer, requestData)
                      ELSE @,
          !.calls = Append(@, [apiKey |-> apiKey, apiVersion |-> apiVersion,
                               requestData |-> requestData])]

\* A connection that has just connected, with the counter near 0 or near the
\* modulus, and the clientId of its configuration: empty, "a" or e-acute.
WireClientIds == { << >>, << 97 >>, << 233 >> }
WireApiKeys == {PRODUCE, API_VERSIONS}
WireVersions == {0, 1}
WirePayloads == { << >>, << 7 >>, [k \in 1 .. 11 |-> k] }

InitWire ==
    /\ ConnectionAtRest
    /\ IdleClient
    /\ codec = [pc |-> "none"]
    /\ cluster = NewClusterMetadata
    /\ versions = NewVersions
    /\ life = NewNetworkClient
    /\ peel = [pc |-> "none"]
    /\ \E counter \in IdStarts, clientId \in WireClientIds :
          wire = [pc |-> "open",
                  c |-> [Established EXCEPT
                            !.correlationIdCounter = counter,
                            !.inFlightRequests = << >>,
                            !.promises = << >>,
                            !.writes = {}],
                  clientId |-> clientId, written |-> << >>, calls |-> << >>]

WireQuiet ==
    UNCHANGED << connVars, now, feedVars, clientVars, codec, cluster, versions,
                 life, peel >>

WireSend ==
    /\ wire.pc = "open"
    /\ Len(wire.calls) < MaxWireSends
    /\ \E apiKey \in WireApiKeys, apiVersion \in WireVersions,
          requestData \in WirePayloads :
          wire' = sendBytes(wire, apiKey, apiVersion, requestData)
    /\ WireQuiet

WireDisconnect ==
    /\ wire.pc = "open"
    /\ wire.c.state # DISCONNECTED
    /\ wire' = [wire EXCEPT !.c = disconnect(@)]
    /\ WireQuiet

NextWire == WireSend \/ WireDisconnect

SpecWire == InitWire /\ [][NextWire]_vars

\* ------------------------------------------- one 'data' event, step by step
\* handleIncomingData with its while loop unrolled: p.c are the fields,
\* p.processed the cursor, p.cursors its successive values and p.steps the
\* frames peeled.
\* The statements before the loop.
beforeLoop(p) ==
    [p EXCEPT !.c = [Emit(@, "bytesIn") EXCEPT !.buffer = @ \o p.data],
              !.processed = 0, !.cursors = << 0 >>, !.pc = "loop"]

\* The statements after the loop.
afterLoop(p) ==
    [p EXCEPT !.pc = "done",
              !.c = IF p.processed = 0 THEN @
                    ELSE [@ EXCEPT !.buffer = Slice(@, p.processed, Len(@))]]

\* One evaluation of the loop's condition and, if it holds, of its body;
\* readInt32BE throws a RangeError for an offset below 0, and what
\* handleResponse's onError throws leaves the handler too.
iteration(p) ==
    LET len == Len(p.c.buffer)
    IN IF ~(p.processed < len) \/ len - p.processed < SizeFieldLen
       THEN afterLoop(p)
       ELSE IF p.processed < 0
       THEN [p EXCEPT !.pc = "threw"]
       ELSE LET messageSize == ReadInt32BE(p.c.buffer, p.processed)
            IN IF len - p.processed - SizeFieldLen < messageSize
               THEN afterLoop(p)
               ELSE LET message ==
                            Slice(p.c.buffer, p.processed + SizeFieldLen,
                                  p.processed + SizeFieldLen + messageSize)
                        c1 == handleResponse(p.c, message)
                    IN IF c1.threw
                       THEN [p EXCEPT !.c = c1, !.pc = "threw"]
                       ELSE [p EXCEPT
                               !.c = c1,
                               !.processed = @ + SizeFieldLen + messageSize,
                               !.cursors = Append(@, p.processed + SizeFieldLen
                                                        + messageSize),
                               !.steps = @ + 1]

\* What a peer may send: frames whose length prefix is negative, zero, less
\* than the response header, or the length of what follows; one or two of
\* them, the last one whole or cut after two bytes.
PeelSizes == {0 - 8, 0 - 6, 0 - 4, 0 - 1, 0, 2, 4, 5}
FrameOfSize(n) ==
    WriteInt32BE(n) \o
    (IF n >= HeaderSize
     THEN WriteInt32BE(1) \o [k \in 1 .. n - HeaderSize |-> 0]
     ELSE [k \in 1 .. n |-> 0])
PeelInputs ==
    { FrameOfSize(a) : a \in PeelSizes } \cup
    { FrameOfSize(a) \o FrameOfSize(b) : a, b \in PeelSizes } \cup
    { FrameOfSize(a) \o SubSeq(FrameOfSize(b), 1, 2) : a, b \in PeelSizes }

\* A 'data' event arrives on a CONNECTED connection with requests in flight,
\* with or without a listener for 'error'.
InitPeel ==
    /\ ConnectionAtRest
    /\ IdleClient
    /\ codec = [pc |-> "none"]
    /\ cluster = NewClusterMetadata
    /\ versions = NewVersions
    /\ life = NewNetworkClient
    /\ wire = [pc |-> "none"]
    /\ \E data \in PeelInputs, listener \in BOOLEAN :
          peel = [pc |-> "start",
                  c |-> [Established EXCEPT !.errorListener = listener],
                  data |-> data, processed |-> 0, cursors |-> << >>,
                  steps |-> 0]

PeelQuiet ==
    UNCHANGED << connVars, now, feedVars, clientVars, codec, cluster, versions,
                 life, wire >>

DataArrives ==
    /\ peel.pc = "start"
    /\ peel' = beforeLoop(peel)
    /\ PeelQuiet

Iteration ==
    /\ peel.pc = "loop"
    /\ peel.steps < MaxPeelSteps
    /\ peel' = iteration(peel)
    /\ PeelQuiet

NextPeel == DataArrives \/ Iteration

SpecPeel == InitPeel /\ [][NextPeel]_vars

\* ------------------------------------------------------------ the claims
Accepted(r) == r \in DOMAIN promises /\ promises[r].accepted
InTable(r) ==
    \E x \in DOMAIN inFlightRequests : inFlightRequests[x].req = r
Calls(r) == promises[r].calls
\* The calls of resolve and reject that the step made on the promise of r.
NewCalls(r) ==
    IF r \in DOMAIN promises
    THEN SubSeq(promises'[r].calls, Len(promises[r].calls) + 1,
                Len(promises'[r].calls))
    ELSE promises'[r].calls
Rejection(kind) == [kind |-> kind, body |-> << >>]
TimedOut(r) ==
    /\ Accepted(r)
    /\ \E i \in DOMAIN Calls(r) : Calls(r)[i].kind = "Timeout"
\* The message of a response frame: the frame without its size field.
Message(cid, body) == WriteInt32BE(cid) \o body

SettledAsSpecified(r) ==
    /\ r \in DOMAIN promises
    /\ Calls(r) # << >>
    /\ Calls(r)[1].kind \in {"Resolved", "Timeout", "Disconnected"}
C2_EveryAcceptedSendSettles ==
    \A r \in 1 .. MaxRequests : [](Accepted(r) => <>SettledAsSpecified(r))

\* C3: whatever the order in which the responses arrive, a request is
\* resolved only by a message that carries the request's own correlation id,
\* and with that message's body (the header stripped).
C3_CorrelationMatching ==
    [][\A r \in DOMAIN promises :
          \A i \in DOMAIN NewCalls(r) :
              NewCalls(r)[i].kind = "Resolved" =>
                  \E j \in DOMAIN handled' :
                      handled'[j] = Message(promises[r].cid, NewCalls(r)[i].body)
      ]_vars
\* The second request is resolved with its own body while the first, sent
\* before it, is still in flight.
C3_Witness ==
    /\ Len(promises) = 2
    /\ Accepted(1) /\ InTable(1) /\ Calls(1) = << >>
    /\ Accepted(2)
    /\ Calls(2) = << [kind |-> "Resolved", body |-> BodyOf(promises[2].cid)] >>

\* C4: the sweep removes and rejects with Timeout exactly the requests older
\* than their own timeout and leaves the others in flight untouched; a
\* response that arrives for a timed-out correlation id is dropped: no error,
\* no change of the connection state, the table or any promise.
C4_TimeoutIsolation ==
    [][/\ lastOp' = "sweep" =>
            \A x \in DOMAIN inFlightRequests :
                LET e == inFlightRequests[x]
                IN IF now - e.sentTime > e.timeout
                   THEN /\ x \notin DOMAIN inFlightRequests'
                        /\ NewCalls(e.req) = << Rejection("Timeout") >>
                   ELSE /\ x \in DOMAIN inFlightRequests'
                        /\ inFlightRequests'[x] = e
                        /\ NewCalls(e.req) = << >>
       /\ \A r \in DOMAIN promises :
            ( /\ lastOp' = "socket.data"
              /\ TimedOut(r)
              /\ promises[r].cid \notin DOMAIN inFlightRequests
              /\ handled' = << Message(promises[r].cid, BodyOf(promises[r].cid)) >> )
            => /\ state' = state
               /\ inFlightRequests' = inFlightRequests
               /\ promises' = promises
               /\ ~threw'
               /\ \A i \in DOMAIN emits' : emits'[i] # "error"
      ]_vars
\* The first request has timed out, the second is still in flight, and the
\* late response of the first has just been handled.
C4_Witness ==
    /\ Len(promises) = 2
    /\ Calls(1) = << Rejection("Timeout") >>
    /\ Accepted(2) /\ InTable(2) /\ Calls(2) = << >>
    /\ lastOp = "socket.data"
    /\ handled = << Message(promises[1].cid, BodyOf(promises[1].cid)) >>

\* C5: send() in a state other than CONNECTED is rejected at once with
\* Disconnected: no entry is registered, nothing is written to the socket,
\* no correlation id is used and the connection state is unchanged.
C5_SendRequiresConnected ==
    [][( /\ lastOp' = "send"
         /\ Len(promises') = Len(promises) + 1
         /\ state # CONNECTED )
       => /\ promises' = Append(promises,
                [accepted |-> FALSE, cid |-> 0,
                 calls |-> << Rejection("Disconnected") >>])
          /\ inFlightRequests' = inFlightRequests
          /\ writes' = writes
          /\ correlationIdCounter' = correlationIdCounter
          /\ state' = state
          /\ socket' = socket
          /\ emits' = << >>
      ]_vars
\* send() was called while CONNECTING, with a socket already held.
C5_Witness ==
    /\ lastOp = "send"
    /\ state = CONNECTING
    /\ socket # 0
    /\ promises # << >>
    /\ ~promises[Len(promises)].accepted
    /\ promises[Len(promises)].calls = << Rejection("Disconnected") >>

\* C6: however the stream of complete frames is cut into chunks, the messages
\* passed to handleResponse are the frames that have wholly arrived, in
\* order and once each, and the pending buffer holds exactly the bytes that
\* arrived after them; when the whole stream has arrived all frames have
\* been delivered and the buffer is empty.
EndOf(k) == Len(StreamBytes(SubSeq(stream, 1, k)))
Arrived ==
    CHOOSE k \in 0 .. Len(stream) :
        /\ EndOf(k) <= fed
        /\ \A j \in 0 .. Len(stream) : EndOf(j) <= fed => j <= k
C6_ReassemblyIndependentOfChunking ==
    /\ delivered = [i \in 1 .. Arrived |-> Message(stream[i].cid, stream[i].body)]
    /\ buffer = SubSeq(StreamBytes(stream), EndOf(Arrived) + 1, fed)
    /\ fed = Len(StreamBytes(stream)) =>
            /\ Len(delivered) = Len(stream)
            /\ buffer = << >>
\* One frame has been delivered and a part of the next one is pending.
C6_Witness ==
    /\ Len(stream) = 2
    /\ Len(delivered) = 1
    /\ buffer # << >>
    /\ fed < Len(StreamBytes(stream))

\* C7: every change of this.state is one of DISCONNECTED -> CONNECTING,
\* CONNECTING -> CONNECTED, CONNECTED -> CLOSING and CLOSING -> DISCONNECTED.
SpecTransitions ==
    { << DISCONNECTED, CONNECTING >>, << CONNECTING, CONNECTED >>,
      << CONNECTED, CLOSING >>, << CLOSING, DISCONNECTED >> }
C7_OnlySpecTransitions ==
    [][\A i \in DOMAIN trace' :
          LET from == IF i = 1 THEN state ELSE trace'[i - 1]
              to == trace'[i]
          IN from = to \/ << from, to >> \in SpecTransitions
      ]_vars

\* C8: a connection never has two sockets being dialed or open at the same
\* time (a socket counts as open until end() is called on it or the peer
\* ends it); in particular connect() while CONNECTING opens no second one.
Dialing(s) == sockets[s].phase = "connecting"
Open(s) == sockets[s].phase = "open" /\ ~sockets[s].ended
C8_AtMostOneDial ==
    Cardinality({s \in SocketIds : Dialing(s) \/ Open(s)}) <= 1

\* C9: connect() while CONNECTED changes no field, opens no socket, arms no
\* timer and emits no event.
C9_ConnectWhenConnectedIsNoOp ==
    [][(lastOp' = "connect" /\ state = CONNECTED)
       => /\ UNCHANGED << state, socket, correlationIdCounter,
                          inFlightRequests, buffer, connectionTimeout, timers,
                          requestTimeoutInterval, intervals, sockets,
                          errorListener, onceConnect, onceError, promises,
                          writes >>
          /\ emits' = << >>
          /\ trace' = << >>
          /\ ~threw'
      ]_vars
\* connect() has returned on a CONNECTED connection with requests in flight.
C9_Witness ==
    /\ lastOp = "connect"
    /\ state = CONNECTED
    /\ trace = << >>
    /\ DOMAIN inFlightRequests # {}

\* C10: disconnect() ends, from any state, with state DISCONNECTED, an empty
\* in-flight table, no socket held and no sweep interval running; every
\* request that was in flight is rejected with Disconnected; on a
\* DISCONNECTED connection it changes nothing and emits nothing.
C10_DisconnectIsTotalAndIdempotent ==
    [][lastOp' = "disconnect"
       => /\ state' = DISCONNECTED
          /\ DOMAIN inFlightRequests' = {}
          /\ socket' = 0
          /\ intervals' = {}
          /\ \A x \in DOMAIN inFlightRequests :
                NewCalls(inFlightRequests[x].req) = << Rejection("Disconnected") >>
          /\ state = DISCONNECTED
                => /\ UNCHANGED << socket, correlationIdCounter,
                                   inFlightRequests, buffer, connectionTimeout,
                                   timers, requestTimeoutInterval, intervals,
                                   sockets, promises, writes >>
                   /\ emits' = << >>
      ]_vars

\* C11: the 'disconnect' event is emitted exactly once when a period in
\* CONNECTED ends and never otherwise: a handler emits it as many times as
\* its assignments to this.state leave CONNECTED.
Leaves(seq) ==
    Cardinality({i \in 1 .. Len(seq) - 1 :
                    seq[i] = CONNECTED /\ seq[i + 1] # CONNECTED})
Count(seq, ev) == Cardinality({i \in DOMAIN seq : seq[i] = ev})
C11_DisconnectOncePerLifetime ==
    [][Count(emits', "disconnect") = Leaves(<< state >> \o trace')]_vars

\* C12: the 'error' or 'end' event of a socket whose handlers are registered,
\* on a CONNECTED connection, ends with state DISCONNECTED and an empty
\* table, rejects every request that was in flight, dials no socket and
\* writes nothing.
HandlerRan(s) == sockets[s].attached /\ sockets'[s].phase # sockets[s].phase
C12_SocketFailureTearsDown ==
    [][( /\ lastOp' \in {"socket.error", "socket.end"}
         /\ state = CONNECTED
         /\ \E s \in SocketIds : HandlerRan(s) )
       => /\ state' = DISCONNECTED
          /\ DOMAIN inFlightRequests' = {}
          /\ \A x \in DOMAIN inFlightRequests :
                Len(NewCalls(inFlightRequests[x].req)) = 1
          /\ \A s \in SocketIds :
                sockets[s].phase = "none" => sockets'[s].phase = "none"
          /\ writes' \subseteq writes
      ]_vars

\* C13: the correlation ids of successive send() calls increase by one, or
\* fall back to 0 from the last value below the modulus; every id is at least
\* 0 and at most 2^31 - 1.
AllocatedIds == [r \in DOMAIN promises |-> promises[r].cid]
C13_CorrelationIdsMonotoneInt32 ==
    /\ \A r \in DOMAIN AllocatedIds :
          AllocatedIds[r] >= 0 /\ AllocatedIds[r] <= 2147483647
    /\ \A r \in DOMAIN AllocatedIds :
          r > 1 =>
             \/ AllocatedIds[r] > AllocatedIds[r - 1]
             \/ /\ AllocatedIds[r - 1] = CorrelationModulus - 1
                /\ AllocatedIds[r] = 0
\* The counter has wrapped: an id 0 follows the largest id.
C13_Witness ==
    \E r \in DOMAIN AllocatedIds :
        /\ r > 1
        /\ AllocatedIds[r - 1] = 2147483646
        /\ AllocatedIds[r] = 0

\* C14: at most one refresh is past the single-flight flag (so at most one
\* Metadata request is outstanding and at most one reconciliation runs), and
\* a refreshMetadata call made while a refresh is in progress returns at once:
\* it sends nothing, is not queued and changes neither the cache, the pool
\* nor the other calls.
Refreshing(cs) == {i \in 1 .. MaxCalls : cs[i].pcR # "idle"}
C14_RefreshIsSingleFlight ==
    [][/\ Cardinality(Refreshing(calls')) <= 1
       /\ Refreshing(calls') # {} => isRefreshingMetadata'
       /\ \A i \in 1 .. MaxCalls :
            ( /\ calls[i].kind = "none"
              /\ calls'[i].kind = "refreshMetadata"
              /\ isRefreshingMetadata )
            => /\ calls'[i].pcR = "idle"
               /\ calls'[i].outcome = "ok"
               /\ calls'[i].log = << "overlap" >>
               /\ UNCHANGED << isRefreshingMetadata, connections, up,
                               clusterMetadata >>
               /\ \A j \in 1 .. MaxCalls :
                     (j # i /\ calls[j].outcome = "pending")
                         => calls'[j] = calls[j]
      ]_vars
\* A second refreshMetadata call has returned while the Metadata request of
\* the first is outstanding.
C14_Witness ==
    /\ calls[1].kind = "refreshMetadata" /\ calls[1].pcR = "send"
    /\ calls[2].kind = "refreshMetadata" /\ calls[2].log = << "overlap" >>
    /\ calls[2].outcome = "ok"

\* C15: a refreshMetadata call that found a refresh in progress does not
\* complete successfully when that refresh ends in failure.
SawFailure(i) ==
    \E k \in DOMAIN calls[i].saw :
        LET h == calls[i].saw[k]
        IN /\ Len(calls[h[1]].results) >= h[2]
           /\ calls[h[1]].results[h[2]].res # "ok"
C15_RefreshFailureReachesOverlappingCallers ==
    \A i \in 1 .. MaxCalls :
        (calls[i].kind = "refreshMetadata" /\ SawFailure(i))
            => calls[i].outcome # "ok"

\* C16: when a refresh completes successfully the pooled ids are broker ids
\* of its snapshot, every connection pooled before whose id the snapshot
\* lacks has been disconnected and evicted, every broker dialed with success
\* is pooled and every broker whose dial failed is not; a refresh that has
\* reached the reconciliation does not fail, and after a dial that failed it
\* goes on to the next broker or to its end.
Ended(i) == Len(calls'[i].results) = Len(calls[i].results) + 1
LastResult(i) == calls'[i].results[Len(calls'[i].results)]
SnapshotIds(md) == {md.brokers[k] : k \in DOMAIN md.brokers}
C16_ReconciliationPostcondition ==
    [][/\ \A i \in 1 .. MaxCalls :
             Ended(i) =>
               LET r == LastResult(i)
                   snap == SnapshotIds(clusterMetadata')
                   before == {connections[k] : k \in DOMAIN connections}
                   after == {connections'[k] : k \in DOMAIN connections'}
                   failed == {r.dials[k][1] :
                                 k \in {k \in DOMAIN r.dials : ~r.dials[k][2]}}
               IN /\ calls[i].pcR = "dial" => r.res = "ok"
                  /\ r.res = "ok" =>
                       /\ after \subseteq snap
                       /\ \A x \in before \ snap :
                             /\ x \notin after
                             /\ ~up'[x]
                             /\ \E k \in DOMAIN r.evicted : r.evicted[k] = x
                       /\ \A k \in DOMAIN r.dials :
                             r.dials[k][2] <=> r.dials[k][1] \in after
                       /\ snap \subseteq after \cup failed
       /\ \A i \in 1 .. MaxCalls :
             ( /\ Len(calls'[i].dialLog) = Len(calls[i].dialLog) + 1
               /\ ~calls'[i].dialLog[Len(calls'[i].dialLog)][2] )
                => calls'[i].pcR \in {"dial", "idle"}
      ]_vars

\* C17: a sendRequest call whose lookup finds no connected connection runs
\* one metadata refresh; when that refresh has completed and the node still
\* has no connected connection the call fails with Disconnected and nothing
\* is sent, otherwise the request is sent on the node's connection.
C17_MissRefreshesThenRetriesOnce ==
    \A i \in 1 .. MaxCalls :
        LET log == calls[i].log
        IN ( /\ calls[i].kind = "sendRequest"
             /\ Len(log) >= 2
             /\ log[1] = "miss" )
           => /\ log[2] = "run"
              /\ (Len(log) >= 4 /\ log[4] = "missing") =>
                    /\ calls[i].outcome = "Disconnected"
                    /\ Count(log, "send") = 0
              /\ (Len(log) >= 4 /\ log[4] = "found") =>
                    /\ Len(log) >= 5
                    /\ log[5] = "send"

\* C18: when the first connection.send of a sendRequest call is rejected
\* with Disconnected, the call runs exactly one metadata refresh and then
\* sends once more if the node's connection is connected; whatever follows is
\* surfaced without another refresh or send. A rejection with another error
\* is surfaced at once.
FirstSend(log) ==
    CHOOSE p \in DOMAIN log :
        log[p] = "send" /\ \A q \in 1 .. p - 1 : log[q] # "send"
C18_MidFlightDisconnectRefreshesOnce ==
    \A i \in 1 .. MaxCalls :
        LET log == calls[i].log
        IN ( /\ calls[i].kind = "sendRequest"
             /\ Count(log, "send") > 0
             /\ Len(log) > FirstSend(log) )
           => LET p == FirstSend(log)
                  rest == SubSeq(log, p + 2, Len(log))
              IN /\ log[p + 1] = "Timeout" =>
                      Len(log) = p + 1 /\ calls[i].outcome = "Timeout"
                 /\ log[p + 1] = "Disconnected" =>
                      /\ rest # << >>
                      /\ rest[1] = "run"
                      /\ Count(rest, "run") + Count(rest, "overlap") = 1
                      /\ Count(rest, "send") <= 1
                      /\ Count(rest, "missing") > 0 =>
                            /\ calls[i].outcome = "Disconnected"
                            /\ Count(rest, "send") = 0

\* C19: one sendRequest call runs at most one metadata refresh and hands the
\* payload to connection.send at most twice.
C19_SendRequestRetryIsBounded ==
    \A i \in 1 .. MaxCalls :
        calls[i].kind = "sendRequest" =>
            /\ Count(calls[i].log, "run") <= 1
            /\ Count(calls[i].log, "send") <= 2

\* C20: a sendToPartitionLeader call whose cached leader has no connected
\* connection ends after exactly one metadata refresh, and fails with
\* LeaderNotAvailable exactly when the refreshed cache has no leader.
C20_StaleLeaderRefreshesOnce ==
    \A i \in 1 .. MaxCalls :
        LET log == calls[i].log
        IN ( /\ calls[i].kind = "sendToPartitionLeader"
             /\ calls[i].outcome # "pending"
             /\ log # << >>
             /\ log[1] = "miss" )
           => /\ Count(log, "run") = 1
              /\ Count(log, "overlap") = 0
              /\ Count(log, "noLeader") > 0
                    <=> calls[i].outcome = "LeaderNotAvailable"

\* C28: decoding the encoding of a nullable string, byte array or array, in
\* the standard or the compact form, returns the value and consumes exactly
\* the bytes encoded, and only null is encoded as the null marker.
RoundTrips == codec.result = Decoded(codec.value, Len(codec.buffer))
NullMarkerOnlyForNull ==
    codec.buffer = encode(codec.form, codec.elem, Null) <=> codec.value.isNull
C28_CodecRoundTrip ==
    (codec.pc = "decoded" /\ codec.cut = 0)
        => RoundTrips /\ NullMarkerOnlyForNull
\* No surrogate of s is without its partner.
WellFormed(s) ==
    \A i \in DOMAIN s :
        /\ IsHigh(s[i]) => (i < Len(s) /\ IsLow(s[i + 1]))
        /\ IsLow(s[i]) => (i > 1 /\ IsHigh(s[i - 1]))
\* C28 as amended: the same, for strings in which every surrogate has its
\* partner.
C28_CodecRoundTripWellFormed ==
    ( /\ codec.pc = "decoded"
      /\ codec.cut = 0
      /\ codec.form \in {"string", "compactString"}
            => WellFormed(codec.value.value) )
        => RoundTrips /\ NullMarkerOnlyForNull
\* A compact array of 16384 elements, whose length takes three bytes, has
\* been encoded and decoded.
C28_Witness ==
    /\ codec.pc = "decoded"
    /\ codec.cut = 0
    /\ codec.form = "compactArray"
    /\ Len(codec.value.value) = 16384
    /\ Len(codec.buffer) = 3 + 2 * 16384
    /\ RoundTrips

\* C29: decoding a buffer that ends before the end of an encoding fails.
C29_TruncatedDecodeFails ==
    (codec.pc = "decoded" /\ codec.cut > 0) => codec.result.threw

\* C24: after updateMetadata the broker map holds exactly the brokers of the
\* call, every topic of the call with error code 0 has the call's entry,
\* every topic of the call with another error code keeps its previous entry
\* or absence, and so does every topic the call does not mention.
Entry(topics, name) ==
    IF name \in DOMAIN topics THEN << topics[name] >> ELSE << >>

C24_UpdateReplacesBrokersMergesTopics ==
    [][cluster'.updates = cluster.updates + 1 =>
          LET input == cluster'.call[1]
              Mentioned == {input.topics[k].name : k \in DOMAIN input.topics}
          IN /\ DOMAIN cluster'.brokers =
                    {input.brokers[k].nodeId : k \in DOMAIN input.brokers}
             /\ \A k \in DOMAIN input.brokers :
                    cluster'.brokers[input.brokers[k].nodeId] = input.brokers[k]
             /\ \A k \in DOMAIN input.topics :
                    LET topic == input.topics[k]
                    IN IF topic.errorCode = 0
                       THEN Entry(cluster'.topics, topic.name) = << topic >>
                       ELSE Entry(cluster'.topics, topic.name)
                                = Entry(cluster.topics, topic.name)
             /\ \A name \in (DOMAIN cluster.topics \cup DOMAIN cluster'.topics)
                                \ Mentioned :
                    Entry(cluster'.topics, name) = Entry(cluster.topics, name)
      ]_vars

\* A second update drops broker 2, keeps t1 although the call reports it
\* with an error, and keeps t2 which the call does not mention.
C24_Witness ==
    /\ cluster.lastOp = "updateMetadata"
    /\ cluster.updates = 2
    /\ Len(cluster.call[1].topics) = 1
    /\ cluster.call[1].topics[1].name = "t1"
    /\ cluster.call[1].topics[1].errorCode # 0
    /\ DOMAIN cluster.topics = {"t1", "t2"}
    /\ cluster.topics = cluster.before[1]
    /\ DOMAIN cluster.brokers = {1}
    /\ cluster.brokers[1].host = "a"

\* C25: a topic with error code 0 is reported as changed exactly when it was
\* not cached, or its partition count differs, or for some partition index
\* the leader id, the leader epoch, or the replica, ISR or offline-replica
\* collection, compared as collections without order, differs from the
\* cached one; no other topic is reported.
SameItems(a, b) ==
    LET Times(s, x) == Cardinality({i \in DOMAIN s : s[i] = x})
    IN \A x \in {a[i] : i \in DOMAIN a} \cup {b[i] : i \in DOMAIN b} :
          Times(a, x) = Times(b, x)

Differs(cached, updated) ==
    \/ Len(cached) # Len(updated)
    \/ \E k \in DOMAIN updated :
          LET p == updated[k]
              old == {j \in DOMAIN cached :
                         cached[j].partitionIndex = p.partitionIndex}
          IN \/ old = {}
             \/ \E j \in old :
                   \/ cached[j].leaderId # p.leaderId
                   \/ cached[j].leaderEpoch # p.leaderEpoch
                   \/ ~SameItems(cached[j].replicaNodes, p.replicaNodes)
                   \/ ~SameItems(cached[j].isrNodes, p.isrNodes)
                   \/ ~SameItems(cached[j].offlineReplicas, p.offlineReplicas)

C25_ChangeDetection ==
    [][cluster'.updates = cluster.updates + 1 =>
          LET input == cluster'.call[1]
              reported == cluster'.updatedTopics
              Changed(topic) ==
                  \/ topic.name \notin DOMAIN cluster.topics
                  \/ Differs(cluster.topics[topic.name].partitions,
                             topic.partitions)
          IN /\ \A k \in DOMAIN input.topics :
                    LET topic == input.topics[k]
                    IN (\E i \in DOMAIN reported : reported[i] = topic.name)
                          <=> (topic.errorCode = 0 /\ Changed(topic))
             /\ \A i \in DOMAIN reported :
                    /\ \E k \in DOMAIN input.topics :
                          input.topics[k].name = reported[i]
                    /\ \A j \in DOMAIN reported : reported[j] = reported[i] => j = i
      ]_vars

\* The same snapshot applied again with the ISR list reordered reports no
\* topic.
C25_Witness ==
    /\ cluster.lastOp = "updateMetadata"
    /\ cluster.updates = 2
    /\ Len(cluster.call[1].topics) = 1
    /\ cluster.call[1].topics[1].name = "t1"
    /\ cluster.call[1].topics[1].errorCode = 0
    /\ Len(cluster.call[1].topics[1].partitions) = 1
    /\ cluster.call[1].topics[1].partitions[1].isrNodes = << 2, 1 >>
    /\ "t1" \in DOMAIN cluster.before[1]
    /\ Len(cluster.before[1]["t1"].partitions) = 1
    /\ cluster.before[1]["t1"].partitions[1].isrNodes = << 1, 2 >>
    /\ cluster.updatedTopics = << >>

\* C26: the first updateMetadata on a cache emits 'update' whatever its
\* list of changed topics, a later one exactly when that list is not empty,
\* each at most once and with that list, which the NetworkClient forwards
\* as 'metadataUpdate'; the cache is initialized after it and stays so.
C26_FirstUpdateAlwaysSignals ==
    [][/\ cluster.isMetadataInitialized => cluster'.isMetadataInitialized
       /\ cluster'.updates = cluster.updates + 1 =>
             /\ cluster'.isMetadataInitialized
             /\ cluster'.emits =
                    IF ~cluster.isMetadataInitialized
                          \/ cluster'.updatedTopics # << >>
                    THEN Append(cluster.emits, cluster'.updatedTopics)
                    ELSE cluster.emits
             /\ cluster'.metadataUpdates = cluster'.emits
      ]_vars

\* The first update changed no topic and was signalled; the second changed
\* none and was not.
C26_Witness ==
    /\ cluster.lastOp = "updateMetadata"
    /\ cluster.updates = 2
    /\ cluster.isMetadataInitialized
    /\ cluster.topics = << >>
    /\ cluster.emits = << << >> >>
    /\ cluster.metadataUpdates = << << >> >>

\* C27: findLeader returns the cached leader id, never negative, or fails
\* with an error of a kind of its own for each of: the topic is not cached,
\* the topic has no partition of that index, the partition has no leader.
C27_FindLeaderOutcomes ==
    cluster.lastOp = "findLeader" =>
        LET query == cluster.call[1]
            result == cluster.found[1]
            cached == query.topic \in DOMAIN cluster.topics
            at == IF cached
                  THEN {p \in {cluster.topics[query.topic].partitions[j] :
                                  j \in DOMAIN cluster.topics[query.topic].partitions} :
                           p.partitionIndex = query.partition}
                  ELSE {}
        IN IF ~cached
           THEN result.threw /\ result.name = "TopicNotExistsError"
           ELSE IF at = {}
           THEN result.threw /\ result.name = "PartitionNotExistsError"
           ELSE IF \E p \in at : p.leaderId < 0
           THEN result.threw /\ result.name = "LeaderNotAvailableError"
           ELSE /\ ~result.threw
                /\ result.leaderId >= 0
                /\ \E p \in at : p.leaderId = result.leaderId

\* C30: the NetworkClient's version table holds exactly the ranges of the
\* last ApiVersions response without error; a kind absent from it resolves
\* to minVersion = maxVersion = 0; selectVersion returns the pinned version
\* when it lies inside the range of the kind and otherwise the highest
\* version of the range, so the version selected for a known kind lies
\* inside its range.
TableOf(ranges) ==
    [apiKey \in {ranges[k].apiKey : k \in DOMAIN ranges} |->
        ranges[CHOOSE k \in DOMAIN ranges :
                  /\ ranges[k].apiKey = apiKey
                  /\ \A j \in DOMAIN ranges : ranges[j].apiKey = apiKey => j <= k]]

TableIsLastResponse ==
    /\ DOMAIN versions.apiVersions = DOMAIN TableOf(versions.lastOk)
    /\ \A apiKey \in DOMAIN versions.apiVersions :
          versions.apiVersions[apiKey] = TableOf(versions.lastOk)[apiKey]

AbsentKindIsVersionZero ==
    versions.lastOp = "getApiVersion" =>
        LET apiKey == versions.call[1]
        IN versions.result[1] =
              IF apiKey \in DOMAIN versions.apiVersions
              THEN [minVersion |-> versions.apiVersions[apiKey].minVersion,
                    maxVersion |-> versions.apiVersions[apiKey].maxVersion]
              ELSE [minVersion |-> 0, maxVersion |-> 0]

Within(version, range) ==
    /\ ~version.isNull
    /\ version.value >= range.minVersion
    /\ version.value <= range.maxVersion

SelectedLiesInRange ==
    versions.lastOp = "selectVersion" =>
        LET apiKey == versions.call[1].apiKey
        IN apiKey \in DOMAIN versions.versionRanges =>
              /\ versions.result[1] >= versions.versionRanges[apiKey].minVersion
              /\ versions.result[1] <= versions.versionRanges[apiKey].maxVersion

C30_VersionLookup ==
    /\ TableIsLastResponse
    /\ AbsentKindIsVersionZero
    /\ SelectedLiesInRange
    /\ versions.lastOp = "selectVersion" =>
          LET call == versions.call[1]
              range == IF call.apiKey \in DOMAIN versions.versionRanges
                       THEN versions.versionRanges[call.apiKey]
                       ELSE [minVersion |-> 0, maxVersion |-> 0]
          IN versions.result[1] =
                IF Within(call.preferredVersion, range)
                THEN call.preferredVersion.value
                ELSE range.maxVersion

\* C30 as the code has it: a pinned version outside the range gives way to
\* the caller's fallback version when that lies inside the range, and only
\* then to the highest version of the range.
C30_VersionLookupWithFallback ==
    /\ TableIsLastResponse
    /\ AbsentKindIsVersionZero
    /\ SelectedLiesInRange
    /\ versions.lastOp = "selectVersion" =>
          LET call == versions.call[1]
              range == IF call.apiKey \in DOMAIN versions.versionRanges
                       THEN versions.versionRanges[call.apiKey]
                       ELSE [minVersion |-> 0, maxVersion |-> 0]
          IN versions.result[1] =
                IF Within(call.preferredVersion, range)
                THEN call.preferredVersion.value
                ELSE IF Within(call.fallbackVersion, range)
                THEN call.fallbackVersion.value
                ELSE range.maxVersion

\* The table holds the one kind that a response of two ranges named, and a
\* version pinned above the range of METADATA gives way to the fallback
\* version 0 and not to the highest version 1.
C30_Witness ==
    /\ versions.lastOp = "selectVersion"
    /\ Len(versions.lastOk) = 2
    /\ DOMAIN versions.apiVersions = {METADATA}
    /\ versions.call[1].apiKey = METADATA
    /\ METADATA \in DOMAIN versions.versionRanges
    /\ versions.versionRanges[METADATA].minVersion = 0
    /\ versions.versionRanges[METADATA].maxVersion = 1
    /\ versions.call[1].preferredVersion = Some(2)
    /\ versions.call[1].fallbackVersion = Some(0)
    /\ versions.result[1] = 0

\* C21: a sendToPartitionLeader call whose first attempt fails runs one
\* metadata refresh, looks the leader up in the refreshed cache and hands
\* the request to sendRequest once more; it fails only after that, with what
\* the second attempt ended with, and makes no third attempt.
C21_LeaderSendRetriesOnce ==
    \A i \in 1 .. MaxCalls :
        LET log == calls[i].log
            Delegations == Count(log, "hit") + Count(log, "miss")
            Catches == {p \in DOMAIN log : log[p] = "catch"}
        IN calls[i].kind = "sendToPartitionLeader" =>
              /\ Cardinality(Catches) <= 1
              /\ Delegations <= 2
              /\ \A p \in Catches :
                    /\ Len(log) > p => log[p + 1] = "run"
                    /\ \A q \in p + 2 .. Len(log) - 1 :
                          (log[q] = "refreshed"
                              /\ \A r \in p + 1 .. q - 1 : log[r] # "refreshed")
                             => log[q + 1] \in {"hit", "miss", "noLeader"}
              /\ (calls[i].outcome \notin {"pending", "ok"}) => Catches # {}

\* C22: connect() dials the seeds in their order, a seed only after every
\* earlier one has failed, and after a seed has failed it goes on to the
\* next or, after the last, fails with the aggregate error; it sends the
\* ApiVersions request and the initial Metadata request to the first seed
\* that connected before it succeeds; it fails with the aggregate error
\* only when every seed has failed, having sent no request and started no
\* timer.
Happened(e, at, by) ==
    {p \in DOMAIN life.log :
        life.log[p] = [e |-> e, at |-> at, by |-> by]}
Awaited(k) == Happened("dial", k, "connect") \cup Happened("join", k, "connect")
\* connect() awaited the connection of seed k, and the attempt failed.
FailedFor(k) ==
    \E p \in Awaited(k) : \E q \in Happened("dialFailed", k, "socket") : p < q

C22_ConnectDialsSeedsInOrder ==
    /\ \A k \in 1 .. MaxSeeds :
          /\ \A p \in Awaited(k) :
                \A j \in 1 .. k - 1 :
                    \E a \in Awaited(j) :
                        \E q \in Happened("dialFailed", j, "socket") :
                            a < q /\ q < p
          /\ FailedFor(k) =>
                IF k < MaxSeeds THEN Awaited(k + 1) # {}
                ELSE life.connectCall.outcome = "aggregate"
          /\ (Happened("ApiVersions", k, "connect") # {}
                 \/ Happened("Metadata", k, "connect") # {})
                => /\ Awaited(k) # {}
                   /\ ~FailedFor(k)
    /\ life.connectCall.outcome = "ok" =>
          \E k \in 1 .. MaxSeeds :
              \E a \in Happened("ApiVersions", k, "connect") :
                  \E m \in Happened("Metadata", k, "connect") : a < m
    /\ life.connectCall.outcome = "aggregate" =>
          /\ \A k \in 1 .. MaxSeeds :
                /\ FailedFor(k)
                /\ Happened("ApiVersions", k, "connect") = {}
                /\ Happened("Metadata", k, "connect") = {}
          /\ ~life.timer.set

\* C23: once close() has completed the refresh timer is not pending, no
\* Metadata request is sent any more, the pool is empty, every seed and
\* every connection that was pooled is DISCONNECTED, and no request is
\* outstanding on them.
C23_CloseIsFinal ==
    life.closed =>
        LET closedAt == CHOOSE p \in DOMAIN life.log : life.log[p].e = "close"
        IN /\ ~life.timer.pending
           /\ \A p \in DOMAIN life.log :
                 life.log[p].e = "Metadata" => p < closedAt
           /\ life.connections = << >>
           /\ \A c \in ConnIds :
                 (c <= MaxSeeds
                     \/ \E p \in DOMAIN life.log :
                           life.log[p].e = "pooled" /\ life.log[p].at = c)
                    => life.conn[c].state = DISCONNECTED
           /\ life.connectCall.pc # "apiVersions"
           /\ life.refresh.pc # "send"

\* C36: whenever the connection's state is not CONNECTED its in-flight table
\* is empty.
C36_TableEmptyUnlessConnected ==
    state # CONNECTED => DOMAIN inFlightRequests = {}

\* C36 is seen at work when a connection that had a request in flight has
\* left CONNECTED.
C36_Witness ==
    /\ state = DISCONNECTED
    /\ \E r \in DOMAIN promises :
          /\ promises[r].accepted
          /\ \E k \in DOMAIN promises[r].calls :
                promises[r].calls[k].kind = "Disconnected"
    /\ lastOp \in {"disconnect", "socket.end", "socket.error", "socket.timeout"}

\* C37: whenever the connection's state is CONNECTED it holds a socket.
C37_ConnectedHoldsSocket ==
    state = CONNECTED => socket # 0

\* C38: whenever the connection's state is DISCONNECTED its pending receive
\* buffer is empty.
C38_BufferEmptyWhenDisconnected ==
    state = DISCONNECTED => buffer = << >>

\* C33: the requests in flight on a connection have pairwise distinct
\* correlation ids, and every request that has been accepted and has no
\* outcome yet still owns the entry of its id in the in-flight table.
InFlight == {r \in DOMAIN promises :
                promises[r].accepted /\ promises[r].calls = << >>}
C33_InFlightIdsAreUnique ==
    /\ \A r1, r2 \in InFlight : r1 # r2 => promises[r1].cid # promises[r2].cid
    /\ \A r \in InFlight :
          /\ promises[r].cid \in DOMAIN inFlightRequests
          /\ inFlightRequests[promises[r].cid].req = r

\* C32: while a 'data' event is handled the cursor of the frame-peeling
\* loop strictly increases with every frame it peels and never leaves the
\* buffer, so the loop peels at most one frame per four buffered bytes; and
\* when the loop ends, the bytes from the cursor on are not a whole frame.
C32_PeelingTerminates ==
    peel.pc \in {"loop", "done", "threw"} =>
        /\ \A k \in 1 .. Len(peel.cursors) - 1 :
              peel.cursors[k] < peel.cursors[k + 1]
        /\ peel.processed >= 0
        /\ peel.steps * SizeFieldLen <= Len(peel.data) + Len(Established.buffer)
        /\ peel.pc = "done" =>
              \/ Len(peel.c.buffer) < SizeFieldLen
              \/ Len(peel.c.buffer) - SizeFieldLen
                     < ReadInt32BE(peel.c.buffer, 0)

\* C31: the bytes a connection has written to its socket are the frames of
\* the send() calls it accepted, whole and in the order of the calls: each is
\* a 4-byte big-endian length N followed by exactly N bytes, which are the
\* call's apiKey, apiVersion, correlation id, the clientId and the payload.
\* What a reader of the stream finds: the frames, and whether the bytes end
\* with a frame.
RECURSIVE ReadFrames(_)
ReadFrames(bytes) ==
    IF bytes = << >> THEN [whole |-> TRUE, frames |-> << >>]
    ELSE IF Len(bytes) < SizeFieldLen \/ ReadInt32BE(bytes, 0) < 10
            \/ Len(bytes) - SizeFieldLen < ReadInt32BE(bytes, 0)
    THEN [whole |-> FALSE, frames |-> << >>]
    ELSE LET n == ReadInt32BE(bytes, 0)
             f == SubSeq(bytes, SizeFieldLen + 1, SizeFieldLen + n)
             idLen == ReadInt16BE(f, 8)
             idEnd == 10 + (IF idLen > 0 THEN idLen ELSE 0)
             rest == ReadFrames(SubSeq(bytes, SizeFieldLen + n + 1, Len(bytes)))
         IN IF idEnd > n THEN [whole |-> FALSE, frames |-> << >>]
            ELSE [whole |-> rest.whole,
                  frames |-> << [apiKey |-> ReadInt16BE(f, 0),
                                 apiVersion |-> ReadInt16BE(f, 2),
                                 correlationId |-> ReadInt32BE(f, 4),
                                 clientId |-> SubSeq(f, 11, idEnd),
                                 requestData |-> SubSeq(f, idEnd + 1, n)] >>
                             \o rest.frames]

\* The accepted calls in their order, with the ids they were given.
AcceptedCalls ==
    LET P == wire.c.promises
        IsAccepted(r) == P[r].accepted
        ordered == SelectSeq([r \in DOMAIN P |-> r], IsAccepted)
    IN [k \in DOMAIN ordered |->
          [apiKey |-> wire.calls[ordered[k]].apiKey,
           apiVersion |-> wire.calls[ordered[k]].apiVersion,
           correlationId |-> P[ordered[k]].cid,
           clientId |-> Utf8Write(wire.clientId),
           requestData |-> wire.calls[ordered[k]].requestData]]

C31_WrittenStreamIsWholeFrames ==
    wire.pc = "open" =>
        /\ ReadFrames(wire.written).whole
        /\ ReadFrames(wire.written).frames = AcceptedCalls

\* C31 is seen at work when two accepted calls with different payloads lie
\* on either side of a refused one.
C31_Witness ==
    /\ wire.pc = "open"
    /\ Len(wire.calls) = 3
    /\ wire.c.promises[1].accepted
    /\ ~wire.c.promises[2].accepted
    /\ wire.c.promises[3].accepted
    /\ wire.calls[1].requestData # wire.calls[3].requestData
    /\ wire.clientId # << >>

\* C34: the promise of a connect() call is without outcome only while the
\* attempt it waits for is in flight: the state is CONNECTING and, for the
\* call that dialed, its socket is the connection's, is still connecting and
\* its connect timer is armed; and a call that joined an attempt is resolved
\* only when the connection is connected.
C34_ConnectCallsSettle ==
    /\ \A s \in SocketIds :
          connectPromises.callers[s] = "pending" =>
              /\ state = CONNECTING
              /\ socket = s
              /\ sockets[s].phase = "connecting"
              /\ s \in timers
    /\ \A k \in DOMAIN connectPromises.joiners :
          /\ connectPromises.joiners[k].outcome = "pending" =>
                state = CONNECTING
          /\ connectPromises.joiners[k].outcome = "resolved" =>
                connectPromises.joiners[k].isConnected


\* C40: with autoRefreshMetadata off, sendRequest and sendToPartitionLeader
\* start, join and await no metadata refresh and write at most one request;
\* a call whose node has no connected Connection ends at once with
\* Disconnected (LeaderNotAvailable when the cache names no leader), a call
\* whose single request fails ends with that failure, and a step in which no
\* refreshMetadata call of the user runs leaves the flag, the cache and the
\* pool as they were.
IsSendCall(c) == c.kind \in {"sendRequest", "sendToPartitionLeader"}
Writes(c) == Len(SelectSeq(c.log, LAMBDA e : e = "send"))
UserRefreshActs ==
    \E j \in 1 .. MaxCalls :
        /\ calls'[j].kind = "refreshMetadata"
        /\ calls[j].kind = "none" \/ calls[j].outcome = "pending"
C40_ToggleOffSendsOnceAndNeverRefreshes ==
    [][/\ \A i \in 1 .. MaxCalls :
             IsSendCall(calls'[i]) =>
               /\ calls'[i].pcR = "idle"
               /\ calls'[i].pcL \in {"idle", "first"}
               /\ calls'[i].pcS \in {"idle", "send"}
               /\ calls'[i].results = << >>
               /\ calls'[i].saw = << >>
               /\ Writes(calls'[i]) <= 1
               /\ calls[i].kind = "none" =>
                    IF /\ calls'[i].kind = "sendToPartitionLeader"
                       /\ clusterMetadata.leader < 0
                    THEN /\ calls'[i].outcome = "LeaderNotAvailable"
                         /\ Writes(calls'[i]) = 0
                    ELSE IF HasConnected(CurClient, calls'[i].node)
                    THEN /\ calls'[i].outcome = "pending"
                         /\ calls'[i].pcS = "send"
                    ELSE /\ calls'[i].outcome = "Disconnected"
                         /\ Writes(calls'[i]) = 0
               /\ ( /\ calls[i].pcS = "send"
                    /\ calls'[i].outcome \notin {"pending", "ok"} )
                  => /\ calls'[i].log # << >>
                     /\ calls'[i].outcome = calls'[i].log[Len(calls'[i].log)]
                     /\ calls'[i].outcome \in SendFailures \cup {"Disconnected"}
       /\ ~UserRefreshActs =>
             UNCHANGED << isRefreshingMetadata, connections, clusterMetadata >>
      ]_vars
\* With the toggle off, one call has ended with Disconnected without writing a
\* request and another with the failure of its one request, while the cache
\* lists the nodes of both.
C40_Witness ==
    /\ ~autoRefreshMetadata
    /\ \E i, j \in 1 .. MaxCalls :
          /\ IsSendCall(calls[i]) /\ calls[i].outcome = "Disconnected"
          /\ Writes(calls[i]) = 0
          /\ IsSendCall(calls[j]) /\ calls[j].outcome \in SendFailures
          /\ Writes(calls[j]) = 1


\* C39: a refresh that ends in failure has dialed and evicted nothing, the
\* step that ends it leaves the cache and the pool as they were and the
\* single-flight flag is set after it only if another refresh has started;
\* and when the dial of the seed fails, the refresh ends in failure in that
\* step.
SeedDialFailed(i) ==
    /\ calls[i].pcR = "seedConnect"
    /\ calls'[i].pcR \notin {"seedConnect", "send"}
C39_FailedRefreshReleasesFlagAndChangesNothing ==
    [][\A i \in 1 .. MaxCalls :
          /\ (Ended(i) /\ LastResult(i).res # "ok")
                => /\ UNCHANGED << connections, clusterMetadata >>
                   /\ LastResult(i).dials = << >>
                   /\ LastResult(i).evicted = << >>
                   /\ isRefreshingMetadata' => Refreshing(calls') # {}
          /\ SeedDialFailed(i)
                => /\ Ended(i)
                   /\ LastResult(i).res # "ok"
                   /\ calls'[i].pcR = "idle"
      ]_vars


\* C35: when the Metadata response of a refresh is applied, every broker of
\* the snapshot that has no connected Connection in the pool is dialed by this
\* refresh (it is the next to dial or still to come in the reconciliation);
\* and a refresh whose dial of a broker failed goes on, so that a next refresh
\* can run.
Applied(i) ==
    /\ calls[i].pcR = "send"
    /\ \/ calls'[i].pcR = "dial"
       \/ Ended(i) /\ LastResult(i).res = "ok"
Unusable(x) == ~HasConnected(CurClient, x)
ToDial(i) == {calls'[i].todo[k] : k \in DOMAIN calls'[i].todo}
BrokerDialFailed(i) ==
    /\ calls[i].pcR = "dial"
    /\ Len(calls'[i].dialLog) = Len(calls[i].dialLog) + 1
    /\ ~calls'[i].dialLog[Len(calls'[i].dialLog)][2]
C35_UnusableBrokerIsRedialed ==
    [][\A i \in 1 .. MaxCalls :
          /\ Applied(i) =>
                \A x \in SnapshotIds(clusterMetadata') :
                    Unusable(x) => x \in ToDial(i)
          /\ BrokerDialFailed(i) =>
                \/ calls'[i].pcR = "dial"
                \/ Ended(i) /\ ~isRefreshingMetadata'
      ]_vars

====
